---- MODULE Spec2Model ----
(***************************************************************************)
(* vnc-overlay: a man-in-the-middle RFB proxy that injects an overlay icon *)
(* and captures clicks on it.  The module models                           *)
(*   - the RFB codec of src/src/rfb.rs (byte-exact encode / decode),       *)
(*   - the per-connection relay tasks of src/src/client.rs (C2S, S2C and   *)
(*     the Client::handle task that joins them),                           *)
(*   - the state writer of src/src/lib.rs (run_proxy).                     *)
(* One connection is modelled in full (id ConnId); the other connection    *)
(* (id PeerId) is modelled by the events it produces.                      *)
(***************************************************************************)
EXTENDS Integers, Sequences, FiniteSets, TLC

(* ------------------------------ bounds -------------------------------- *)
\* messages the client sends on the modelled connection
MaxC2S == 2
\* items (messages, rectangles) the server sends on the modelled connection
MaxS2C == 3
\* events the peer connection produces beside a modelled relay
MaxPeer == 1
\* events the clients produce in SpecCore (the N of "N events by K clients")
MaxEvents == 4

(* ------------------------- program constants -------------------------- *)
\* u16 arithmetic: x, y, width, height, count
U16 == 65536
\* mpsc::channel(16): the event channel
EventCap == 16
\* mpsc::channel::<C2S>(1): the request channel
FbreqCap == 1
\* Client.id of the modelled connection, and of the peer connection
ConnId == 1
PeerId == 0

Clients == {PeerId, ConnId}

(* --------------------------- state provider --------------------------- *)
\* examples/lock.rs: Lock(Option<ClientId>); None is <<>>, Some(id) is <<id>>
LockStates == {<<>>} \cup {<<c>> : c \in Clients}

Action(id) == [kind |-> "Action", id |-> id]
Disconnect(id) == [kind |-> "Disconnect", id |-> id]

\* Lock::handle_event: the new state and the returned "modified" flag
HandleEvent(s, e) ==
    IF e.kind = "Action"
    THEN IF s = <<>> THEN [state |-> <<e.id>>, modified |-> TRUE]
         ELSE IF s = <<e.id>> THEN [state |-> <<>>, modified |-> TRUE]
         ELSE [state |-> s, modified |-> FALSE]
    ELSE IF s = <<e.id>> THEN [state |-> <<>>, modified |-> TRUE]
         ELSE [state |-> s, modified |-> FALSE]

\* Lock::icon_kind
IconKind(s, id) ==
    IF s = <<>> THEN "Nobody" ELSE IF s = <<id>> THEN "Me" ELSE "Peer"

\* Icon { x, y, width, height, rgba_data }: the geometry is the provider's
\* choice; rgba_data is kept by its length.  Three geometries: at the origin,
\* in the interior, and touching the upper end of the u16 range.
MkIcon(x, y, w, h) ==
    [x |-> x, y |-> y, width |-> w, height |-> h, rgba_len |-> w * h * 4]

IconOfKind(kind) ==
    CASE kind = "Nobody" -> MkIcon(0, 0, 16, 16)
      [] kind = "Me" -> MkIcon(18, 0, 4, 16)
      [] OTHER -> MkIcon(65530, 0, 16, 16)

\* State::icon(id)
Icon(s, id) == IconOfKind(IconKind(s, id))

\* u16 addition as the release build computes it (wrapping)
AddU16(a, b) == (a + b) % U16
\* the same addition overflows: the debug build panics there
OverflowsU16(a, b) == a + b >= U16

\* Icon::in_bounds, evaluated left to right with wrapping u16 sums
InBounds(icon, x, y) ==
    /\ icon.x <= x
    /\ x < AddU16(icon.x, icon.width)
    /\ icon.y <= y
    /\ y < AddU16(icon.y, icon.height)

\* Icon::in_bounds reaches a u16 sum that overflows (&& short-circuits)
InBoundsOverflows(icon, x, y) ==
    \/ icon.x <= x /\ OverflowsU16(icon.x, icon.width)
    \/ /\ icon.x <= x
       /\ x < AddU16(icon.x, icon.width)
       /\ icon.y <= y
       /\ OverflowsU16(icon.y, icon.height)

\* the bounding box of the icon, as a set of points (no machine arithmetic)
InBox(icon, x, y) ==
    /\ icon.x <= x /\ x < icon.x + icon.width
    /\ icon.y <= y /\ y < icon.y + icon.height

(* ------------------------------ messages ------------------------------ *)
Enc(tag) == [tag |-> tag]
EncUnknown(n) == [tag |-> "Unknown", n |-> n]

MkPixelFormat(bpp, depth) ==
    [bits_per_pixel |-> bpp, depth |-> depth, big_endian |-> FALSE,
     true_colour |-> TRUE, red_max |-> 255, green_max |-> 255,
     blue_max |-> 255, red_shift |-> 16, green_shift |-> 8, blue_shift |-> 0]

PF32 == MkPixelFormat(32, 24)
PF16 == MkPixelFormat(16, 16)
PF8 == MkPixelFormat(8, 8)

SetPixelFormat(pf) == [type |-> "SetPixelFormat", pf |-> pf]
SetEncodings(es) == [type |-> "SetEncodings", encodings |-> es]
FramebufferUpdateRequest(inc, x, y, w, h) ==
    [type |-> "FramebufferUpdateRequest", incremental |-> inc,
     x |-> x, y |-> y, width |-> w, height |-> h]
KeyEvent(down, key) == [type |-> "KeyEvent", down |-> down, key |-> key]
PointerEvent(mask, x, y) ==
    [type |-> "PointerEvent", button_mask |-> mask, x |-> x, y |-> y]
C2SCutText(text) == [type |-> "CutText", text |-> text]

FramebufferUpdate(count) == [type |-> "FramebufferUpdate", count |-> count]
SetColorMapEntries(first, colors) ==
    [type |-> "SetColorMapEntries", first_color |-> first, colors |-> colors]
Bell == [type |-> "Bell"]
S2CCutText(text) == [type |-> "CutText", text |-> text]

Rectangle(x, y, w, h, e) ==
    [x |-> x, y |-> y, width |-> w, height |-> h, encoding |-> e]

\* the list the C2S relay sends instead of the client's (client.rs 188-193)
FixedEncodings == <<Enc("Raw"), Enc("Cursor"), Enc("CopyRect"), Enc("Zrle")>>

(* ------------------------------- codec -------------------------------- *)
\* A buffer is a sequence of bytes.  u32 values stay below 2^31 in the model
\* (lengths, keys, statuses); i32 values cover the whole range.
Take(b, n) == SubSeq(b, 1, n)
Drop(b, n) == SubSeq(b, n + 1, Len(b))

\* BufMut::put_u16 / put_u32 / put_i32 / put_bytes (big endian)
PutU16(n) == <<n \div 256, n % 256>>
PutU32(n) ==
    <<n \div 16777216, (n \div 65536) % 256, (n \div 256) % 256, n % 256>>
PutI32(n) ==
    IF n >= 0
    THEN PutU32(n)
    ELSE LET m == (n + 2147483647) + 1
         IN <<128 + m \div 16777216, (m \div 65536) % 256, (m \div 256) % 256,
              m % 256>>
PutBool(f) == <<IF f THEN 1 ELSE 0>>
PutBytes(val, cnt) == [i \in 1..cnt |-> val]

\* Buf::get_u16 / get_u32 / get_i32 on the first bytes of b
GetU16(b) == b[1] * 256 + b[2]
GetU32(b) == ((b[1] * 256 + b[2]) * 256 + b[3]) * 256 + b[4]
GetI32(b) ==
    (((IF b[1] >= 128 THEN b[1] - 256 ELSE b[1]) * 256 + b[2]) * 256 + b[3])
      * 256 + b[4]

\* the results of Message::read_from: the value and the bytes left in the
\* buffer, a DecodeError, or a panic of a get_* on a buffer that is too short
Ok(v, rest) == [st |-> "ok", v |-> v, rest |-> rest]
InsufficientBytes == [st |-> "InsufficientBytes"]
Utf8Error == [st |-> "Utf8"]
Unsupported(m) == [st |-> "Unsupported", m |-> m]
Panic == [st |-> "panic"]

\* String::from_utf8, for texts of single-byte characters: a byte above 127
\* never stands alone in UTF-8
IsUtf8(bytes) == \A i \in 1..Len(bytes) : bytes[i] < 128

\* impl Message for String; a String is kept as its bytes
StringReadFrom(b) ==
    IF Len(b) < 4 THEN InsufficientBytes
    ELSE LET len == GetU32(b)
             r == Drop(b, 4)
         IN IF Len(r) < len THEN InsufficientBytes
            ELSE IF ~IsUtf8(Take(r, len)) THEN Utf8Error
            ELSE Ok(Take(r, len), Drop(r, len))

StringWriteTo(s) == PutU32(Len(s)) \o s

\* impl Message for Version; Version(bytes)
VersionReadFrom(b) ==
    IF Len(b) < 12 THEN InsufficientBytes ELSE Ok(Take(b, 12), Drop(b, 12))

VersionWriteTo(v) == v

\* impl Message for SecurityTypes; SecurityTypes(bytes)
SecurityTypesReadFrom(b) ==
    IF Len(b) < 1 THEN InsufficientBytes
    ELSE LET count == b[1]
             r == Drop(b, 1)
         IN IF Len(r) < count THEN InsufficientBytes
            ELSE Ok(Take(r, count), Drop(r, count))

SecurityTypesWriteTo(v) == <<Len(v)>> \o v

\* impl Message for SecurityType; SecurityType(u8)
SecurityTypeReadFrom(b) ==
    IF Len(b) < 1 THEN InsufficientBytes ELSE Ok(b[1], Drop(b, 1))

SecurityTypeWriteTo(v) == <<v>>

\* impl Message for SecurityResult; SecurityResult(u32)
SecurityResultReadFrom(b) ==
    IF Len(b) < 4 THEN InsufficientBytes ELSE Ok(GetU32(b), Drop(b, 4))

SecurityResultWriteTo(v) == PutU32(v)

\* impl Message for ClientInit
ClientInit(shared) == [shared |-> shared]

ClientInitReadFrom(b) ==
    IF Len(b) < 1 THEN InsufficientBytes
    ELSE Ok(ClientInit(b[1] # 0), Drop(b, 1))

ClientInitWriteTo(v) == PutBool(v.shared)

\* impl Message for PixelFormat
PixelFormatReadFrom(b) ==
    IF Len(b) < 16 THEN InsufficientBytes
    ELSE Ok([bits_per_pixel |-> b[1], depth |-> b[2], big_endian |-> b[3] # 0,
             true_colour |-> b[4] # 0, red_max |-> GetU16(Drop(b, 4)),
             green_max |-> GetU16(Drop(b, 6)), blue_max |-> GetU16(Drop(b, 8)),
             red_shift |-> b[11], green_shift |-> b[12],
             blue_shift |-> b[13]],
            Drop(b, 16))

PixelFormatWriteTo(v) ==
    <<v.bits_per_pixel, v.depth>> \o PutBool(v.big_endian)
      \o PutBool(v.true_colour) \o PutU16(v.red_max) \o PutU16(v.green_max)
      \o PutU16(v.blue_max) \o <<v.red_shift, v.green_shift, v.blue_shift>>
      \o PutBytes(0, 3)

\* impl Message for ServerInit
ServerInit(w, h, pf, name) ==
    [framebuffer_width |-> w, framebuffer_height |-> h, pixel_format |-> pf,
     name |-> name]

ServerInitReadFrom(b) ==
    IF Len(b) < 4 THEN InsufficientBytes
    ELSE LET pf == PixelFormatReadFrom(Drop(b, 4))
         IN IF pf.st # "ok" THEN pf
            ELSE LET name == StringReadFrom(pf.rest)
                 IN IF name.st # "ok" THEN name
                    ELSE Ok(ServerInit(GetU16(b), GetU16(Drop(b, 2)), pf.v,
                                       name.v),
                            name.rest)

ServerInitWriteTo(v) ==
    PutU16(v.framebuffer_width) \o PutU16(v.framebuffer_height)
      \o PixelFormatWriteTo(v.pixel_format) \o StringWriteTo(v.name)

\* impl Message for Encoding
EncodingOfCode(n) ==
    CASE n = 0 -> Enc("Raw")
      [] n = 1 -> Enc("CopyRect")
      [] n = 2 -> Enc("Rre")
      [] n = 5 -> Enc("Hextile")
      [] n = 15 -> Enc("Trle")
      [] n = 16 -> Enc("Zrle")
      [] n = -239 -> Enc("Cursor")
      [] n = -223 -> Enc("DesktopSize")
      [] OTHER -> EncUnknown(n)

CodeOfEncoding(e) ==
    CASE e.tag = "Raw" -> 0
      [] e.tag = "CopyRect" -> 1
      [] e.tag = "Rre" -> 2
      [] e.tag = "Hextile" -> 5
      [] e.tag = "Trle" -> 15
      [] e.tag = "Zrle" -> 16
      [] e.tag = "Cursor" -> -239
      [] e.tag = "DesktopSize" -> -223
      [] e.tag = "Unknown" -> e.n

EncodingReadFrom(b) ==
    IF Len(b) < 4 THEN InsufficientBytes
    ELSE Ok(EncodingOfCode(GetI32(b)), Drop(b, 4))

EncodingWriteTo(e) == PutI32(CodeOfEncoding(e))

\* impl Message for Rectangle
RectangleReadFrom(b) ==
    IF Len(b) < 8 THEN InsufficientBytes
    ELSE LET e == EncodingReadFrom(Drop(b, 8))
         IN IF e.st # "ok" THEN e
            ELSE Ok(Rectangle(GetU16(b), GetU16(Drop(b, 2)),
                              GetU16(Drop(b, 4)), GetU16(Drop(b, 6)), e.v),
                    e.rest)

RectangleWriteTo(v) ==
    PutU16(v.x) \o PutU16(v.y) \o PutU16(v.width) \o PutU16(v.height)
      \o EncodingWriteTo(v.encoding)

\* the concatenation of the sequences of a sequence
RECURSIVE Flatten(_)
Flatten(ss) == IF ss = <<>> THEN <<>> ELSE Head(ss) \o Flatten(Tail(ss))

\* impl Message for C2S, read_from
C2SReadFrom(b) ==
    IF Len(b) < 1 THEN InsufficientBytes
    ELSE LET message_type == b[1]
             r == Drop(b, 1)
         IN CASE message_type = 0 ->
                   IF Len(r) < 3 THEN InsufficientBytes
                   ELSE LET pf == PixelFormatReadFrom(Drop(r, 3))
                        IN IF pf.st # "ok" THEN pf
                           ELSE Ok(SetPixelFormat(pf.v), pf.rest)
              [] message_type = 2 ->
                   IF Len(r) < 1 THEN InsufficientBytes
                   ELSE IF Len(r) < 3 THEN Panic
                   ELSE LET count == GetU16(Drop(r, 1))
                            es == Drop(r, 3)
                        IN IF Len(es) < 4 * count THEN InsufficientBytes
                           ELSE Ok(SetEncodings(
                                     [i \in 1..count |->
                                        EncodingOfCode(
                                          GetI32(Drop(es, 4 * (i - 1))))]),
                                   Drop(es, 4 * count))
              [] message_type = 3 ->
                   IF Len(r) < 9 THEN InsufficientBytes
                   ELSE Ok(FramebufferUpdateRequest(r[1] # 0,
                             GetU16(Drop(r, 1)), GetU16(Drop(r, 3)),
                             GetU16(Drop(r, 5)), GetU16(Drop(r, 7))),
                           Drop(r, 9))
              [] message_type = 4 ->
                   IF Len(r) < 7 THEN InsufficientBytes
                   ELSE Ok(KeyEvent(r[1] # 0, GetU32(Drop(r, 3))), Drop(r, 7))
              [] message_type = 5 ->
                   IF Len(r) < 5 THEN InsufficientBytes
                   ELSE Ok(PointerEvent(r[1], GetU16(Drop(r, 1)),
                                        GetU16(Drop(r, 3))),
                           Drop(r, 5))
              [] message_type = 6 ->
                   IF Len(r) < 3 THEN InsufficientBytes
                   ELSE LET text == StringReadFrom(Drop(r, 3))
                        IN IF text.st # "ok" THEN text
                           ELSE Ok(C2SCutText(text.v), text.rest)
              [] OTHER -> Unsupported(message_type)

\* impl Message for C2S, write_to
C2SWriteTo(m) ==
    CASE m.type = "SetPixelFormat" ->
           <<0>> \o PutBytes(0, 3) \o PixelFormatWriteTo(m.pf)
      [] m.type = "SetEncodings" ->
           <<2, 0>> \o PutU16(Len(m.encodings))
             \o Flatten([i \in 1..Len(m.encodings) |->
                           EncodingWriteTo(m.encodings[i])])
      [] m.type = "FramebufferUpdateRequest" ->
           <<3>> \o PutBool(m.incremental) \o PutU16(m.x) \o PutU16(m.y)
             \o PutU16(m.width) \o PutU16(m.height)
      [] m.type = "KeyEvent" ->
           <<4>> \o PutBool(m.down) \o PutBytes(0, 2) \o PutU32(m.key)
      [] m.type = "PointerEvent" ->
           <<5, m.button_mask>> \o PutU16(m.x) \o PutU16(m.y)
      [] m.type = "CutText" -> StringWriteTo(m.text)

\* impl Message for S2C, read_from
S2CReadFrom(b) ==
    IF Len(b) < 1 THEN InsufficientBytes
    ELSE LET message_type == b[1]
             r == Drop(b, 1)
         IN CASE message_type = 0 ->
                   IF Len(r) < 3 THEN InsufficientBytes
                   ELSE Ok(FramebufferUpdate(GetU16(Drop(r, 1))), Drop(r, 3))
              [] message_type = 1 ->
                   IF Len(r) < 5 THEN Panic
                   ELSE LET count == GetU16(Drop(r, 3))
                            cs == Drop(r, 5)
                        IN IF Len(cs) < count * 3 * 2 THEN InsufficientBytes
                           ELSE Ok(SetColorMapEntries(GetU16(Drop(r, 1)),
                                     Take(cs, count * 3 * 2)),
                                   Drop(cs, count * 3 * 2))
              [] message_type = 2 -> Ok(Bell, r)
              [] message_type = 3 ->
                   IF Len(r) < 3 THEN InsufficientBytes
                   ELSE LET text == StringReadFrom(Drop(r, 3))
                        IN IF text.st # "ok" THEN text
                           ELSE Ok(S2CCutText(text.v), text.rest)
              [] OTHER -> Unsupported(message_type)

\* impl Message for S2C, write_to
S2CWriteTo(m) ==
    CASE m.type = "FramebufferUpdate" -> <<0, 0>> \o PutU16(m.count)
      [] m.type = "SetColorMapEntries" ->
           <<1, 0>> \o PutU16(m.first_color) \o PutU16(Len(m.colors) \div 6)
             \o m.colors
      [] m.type = "Bell" -> <<2>>
      [] m.type = "CutText" ->
           <<3>> \o PutBytes(0, 3) \o StringWriteTo(m.text)

\* a message type M and a value of it
Typed(kind, m) == [kind |-> kind, m |-> m]

\* M::read_from for the message type kind
ReadFrom(kind, b) ==
    CASE kind = "C2S" -> C2SReadFrom(b)
      [] kind = "S2C" -> S2CReadFrom(b)
      [] kind = "Version" -> VersionReadFrom(b)
      [] kind = "SecurityTypes" -> SecurityTypesReadFrom(b)
      [] kind = "SecurityType" -> SecurityTypeReadFrom(b)
      [] kind = "SecurityResult" -> SecurityResultReadFrom(b)
      [] kind = "ClientInit" -> ClientInitReadFrom(b)
      [] kind = "ServerInit" -> ServerInitReadFrom(b)
      [] kind = "PixelFormat" -> PixelFormatReadFrom(b)
      [] kind = "Rectangle" -> RectangleReadFrom(b)

\* M::write_to for the message type kind
WriteTo(kind, m) ==
    CASE kind = "C2S" -> C2SWriteTo(m)
      [] kind = "S2C" -> S2CWriteTo(m)
      [] kind = "Version" -> VersionWriteTo(m)
      [] kind = "SecurityTypes" -> SecurityTypesWriteTo(m)
      [] kind = "SecurityType" -> SecurityTypeWriteTo(m)
      [] kind = "SecurityResult" -> SecurityResultWriteTo(m)
      [] kind = "ClientInit" -> ClientInitWriteTo(m)
      [] kind = "ServerInit" -> ServerInitWriteTo(m)
      [] kind = "PixelFormat" -> PixelFormatWriteTo(m)
      [] kind = "Rectangle" -> RectangleWriteTo(m)

VARIABLES
    \* ---- state core (run_proxy) ----
    state,          \* the value in the state watch channel
    changed,        \* per client: the state receiver holds an unseen version
    events,         \* the event channel (capacity EventCap)
    entered,        \* history: every event that entered the event channel
    applied,        \* history: every event handle_event was applied to
    notified,       \* history: number of versions published
    offered,        \* history: number of events offered by the abstract clients
    \* ---- C2S relay task ----
    c2s_pc,         \* "read" | "fbreq_load" | "exited" | "panicked"
    c2s_req,        \* the FramebufferUpdateRequest between try_send and load
    mouse_pressed,
    clientIn,       \* history: messages read from the client
    serverOut,      \* history: messages written to the server
    \* ---- shared between the two relay tasks ----
    fmt,            \* the pixel format watch channel
    fbreq,          \* the request channel (capacity FbreqCap)
    forward_request,
    \* ---- S2C relay task ----
    s2c_pc,         \* position of the task, see the S2C actions
    s2c_after,      \* who called next_request: "msg" | "state"
    s2c_count,      \* count of the FramebufferUpdate being relayed
    s2c_left,       \* rectangles of the frame still to relay
    s2c_send_icon,  \* the local send_icon of handle_message
    s2c_rect,       \* the rectangle whose payload is being relayed
    frame_fmt,      \* history: the pixel format read at the frame's header
    icon_sent,
    serverRead,     \* history: number of items read from the server
    serverIn,       \* history: what was read from the server, in order
    reclaimed,      \* history: requests next_request got from its recv()
    clientOut,      \* history: items written to the client
    \* ---- Client::handle task ----
    h_pc,           \* "select" | "disconnect" | "done" | "panicked"
    \* ---- a message on the wire (RfbIo write_message / read_message) ----
    w_pc,           \* "idle" | "write" | "read" | "done"
    w_msg,          \* the typed message written
    w_next,         \* the bytes that follow it on the stream
    w_buf,          \* the bytes on the stream
    w_res,          \* the result of read_from on them
    \* ---- Client::handle before the relays: connect and handshake ----
    hs_pc,          \* position of Client::handle / handshake, see Handshake
    hs_err,         \* the Err Client::handle returned early ("none" if not)
    srv_buf,        \* bytes received from the upstream server, not yet read
    srv_script,     \* what the upstream server still sends, and when
    cli_buf,        \* bytes received from the client, not yet read
    cli_script,     \* what the client still sends, and when
    hs_log,         \* history: messages the handshake wrote, with the peer
    \* ---- run_proxy: the accept loop ----
    client_counter, \* run_proxy's client_counter
    listener,       \* "running" | "returned"
    conns           \* history: the connections accepted, in accept order

coreVars == <<state, changed, events, entered, applied, notified, offered>>
c2sVars == <<c2s_pc, c2s_req, mouse_pressed, clientIn, serverOut>>
sharedVars == <<fmt, fbreq, forward_request>>
s2cVars == <<s2c_pc, s2c_after, s2c_count, s2c_left, s2c_send_icon, s2c_rect,
             frame_fmt,
             icon_sent, serverRead, serverIn, reclaimed, clientOut>>
wireVars == <<w_pc, w_msg, w_next, w_buf, w_res>>
hsVars == <<hs_pc, hs_err, srv_buf, srv_script, cli_buf, cli_script, hs_log>>
acceptVars == <<client_counter, listener, conns>>
vars == <<coreVars, c2sVars, sharedVars, s2cVars, h_pc, wireVars, hsVars,
          acceptVars>>

\* the relay task has ended (returned or panicked): its handler is dropped
Ended(pc) == pc \in {"exited", "panicked"}

(* ------------------------- state core actions ------------------------- *)
\* mpsc try_send on the event channel: the event enters unless it is full
EventsOffer(e) ==
    IF Len(events) < EventCap
    THEN /\ events' = Append(events, e)
         /\ entered' = Append(entered, e)
    ELSE UNCHANGED <<events, entered>>

\* the C2S relay of connection id captures a click: Client::send_action,
\* for a connection whose relay is not modelled step by step
SendAction(id, limit) ==
    /\ offered < limit
    /\ offered' = offered + 1
    /\ EventsOffer(Action(id))
    /\ UNCHANGED <<state, changed, applied, notified>>
    /\ UNCHANGED <<c2sVars, sharedVars, s2cVars, h_pc, wireVars,
                   hsVars, acceptVars>>

\* connection id ends: Client::handle lines 98-101 (send waits for room),
\* for a connection whose relay is not modelled step by step
SendDisconnect(id, limit) ==
    /\ offered < limit
    /\ Len(events) < EventCap
    /\ offered' = offered + 1
    /\ events' = Append(events, Disconnect(id))
    /\ entered' = Append(entered, Disconnect(id))
    /\ UNCHANGED <<state, changed, applied, notified>>
    /\ UNCHANGED <<c2sVars, sharedVars, s2cVars, h_pc, wireVars,
                   hsVars, acceptVars>>

\* the S2C relay of connection id takes the changed() arm of its select
\* (client.rs line 258), for a connection whose relay is not modelled
Wake(id) ==
    /\ changed[id]
    /\ changed' = [changed EXCEPT ![id] = FALSE]
    /\ UNCHANGED <<state, events, entered, applied, notified, offered>>
    /\ UNCHANGED <<c2sVars, sharedVars, s2cVars, h_pc, wireVars,
                   hsVars, acceptVars>>

\* mutant: publishes a new version whatever handle_event returned
PublishAlways(modified) == TRUE

\* watch::Sender::send_if_modified: a version is published iff the closure
\* returned true
Publish(modified) == modified

\* run_proxy, the event arm of the select: recv, then send_if_modified
WriterApply ==
    /\ listener = "running"
    /\ events # <<>>
    /\ LET e == Head(events)
           r == HandleEvent(state, e)
       IN /\ events' = Tail(events)
          /\ applied' = Append(applied, e)
          /\ state' = r.state
          /\ IF Publish(r.modified)
             THEN /\ changed' = [c \in Clients |-> TRUE]
                  /\ notified' = notified + 1
             ELSE UNCHANGED <<changed, notified>>
    /\ UNCHANGED <<entered, offered>>
    /\ UNCHANGED <<c2sVars, sharedVars, s2cVars, h_pc, wireVars,
                   hsVars, acceptVars>>

(* ----------------------------- C2S relay ------------------------------ *)
\* lines 233-235: write_message to the server when the match gave Some
C2SWrite(out) ==
    IF out = <<>>
    THEN c2s_pc' = "read" /\ serverOut' = serverOut
    ELSE \/ c2s_pc' = "read" /\ serverOut' = Append(serverOut, out[1])
         \/ c2s_pc' = "exited" /\ serverOut' = serverOut

\* mutant: the client's own list is forwarded
ForwardClientEncodings(m) == m

\* lines 186-194
RewriteEncodings(m) == SetEncodings(FixedEncodings)

C2SSetEncodings(m) ==
    /\ C2SWrite(<<RewriteEncodings(m)>>)
    /\ UNCHANGED <<mouse_pressed, c2s_req, sharedVars, events, entered>>

\* mutant: the format is not published
KeepFormat(cur, pixel_format) == cur

\* line 198: watch::Sender::send_replace stores the value in the channel
SendReplace(cur, pixel_format) == pixel_format

\* lines 196-200
C2SSetPixelFormat(m) ==
    /\ fmt' = SendReplace(fmt, m.pf)
    /\ C2SWrite(<<m>>)
    /\ UNCHANGED <<mouse_pressed, c2s_req, fbreq, forward_request,
                   events, entered>>

\* lines 202-221
C2SPointerEvent(m) ==
    LET mouse_pressed_new == (m.button_mask % 2) = 1
        click == mouse_pressed /\ ~mouse_pressed_new
        icon == Icon(state, ConnId)
    IN /\ mouse_pressed' = mouse_pressed_new
       /\ UNCHANGED <<c2s_req, sharedVars>>
       /\ \/ /\ click /\ InBoundsOverflows(icon, m.x, m.y)
             /\ c2s_pc' = "panicked"
             /\ UNCHANGED <<events, entered, serverOut>>
          \/ /\ click /\ InBounds(icon, m.x, m.y)
             /\ EventsOffer(Action(ConnId))
             /\ C2SWrite(<<>>)
          \/ /\ ~(click /\ InBounds(icon, m.x, m.y))
             /\ UNCHANGED <<events, entered>>
             /\ C2SWrite(<<m>>)

\* lines 223-224: try_send; the load of forward_request is the next step
C2SRequest(m) ==
    /\ fbreq' = IF Len(fbreq) < FbreqCap /\ ~Ended(s2c_pc)
                THEN Append(fbreq, m) ELSE fbreq
    /\ c2s_req' = <<m>>
    /\ c2s_pc' = "fbreq_load"
    /\ UNCHANGED <<mouse_pressed, serverOut, fmt, forward_request,
                   events, entered>>

\* line 230
C2SOther(m) ==
    /\ C2SWrite(<<m>>)
    /\ UNCHANGED <<mouse_pressed, c2s_req, sharedVars, events, entered>>

\* one iteration of C2SHandler::handle on the message m read from the client
C2SHandle(m) ==
    /\ c2s_pc = "read"
    /\ Len(clientIn) < MaxC2S
    /\ clientIn' = Append(clientIn, m)
    /\ CASE m.type = "SetEncodings" -> C2SSetEncodings(m)
         [] m.type = "SetPixelFormat" -> C2SSetPixelFormat(m)
         [] m.type = "PointerEvent" -> C2SPointerEvent(m)
         [] m.type = "FramebufferUpdateRequest" -> C2SRequest(m)
         [] OTHER -> C2SOther(m)
    /\ UNCHANGED <<state, changed, applied, notified, offered>>
    /\ UNCHANGED <<s2cVars, h_pc, wireVars,
                   hsVars, acceptVars>>

\* mutant: the request is forwarded whatever the flag says
ForwardAlways(flag, req) == req

\* line 227: bool::then_some on the loaded flag
ThenSome(flag, req) == IF flag THEN req ELSE <<>>

\* line 227: load forward_request, then lines 233-235
C2SLoad ==
    /\ c2s_pc = "fbreq_load"
    /\ C2SWrite(ThenSome(forward_request, c2s_req))
    /\ c2s_req' = <<>>
    /\ UNCHANGED <<mouse_pressed, clientIn, sharedVars>>
    /\ UNCHANGED <<coreVars, s2cVars, h_pc, wireVars,
                   hsVars, acceptVars>>

\* line 184: read_message fails (EOF, I/O error, decode error): the task
\* returns Err, and its handler (fbreq_tx with it) is dropped
C2SReadFail ==
    /\ c2s_pc = "read"
    /\ c2s_pc' = "exited"
    /\ UNCHANGED <<c2s_req, mouse_pressed, clientIn, serverOut, sharedVars>>
    /\ UNCHANGED <<coreVars, s2cVars, h_pc, wireVars,
                   hsVars, acceptVars>>

(* ----------------------------- S2C relay ------------------------------ *)
\* items on the client stream; src tells a relayed item from an injected one
MsgItem(m, src) == [k |-> "msg", m |-> m, src |-> src]
RectItem(r, src) == [k |-> "rect", r |-> r, src |-> src]
DataItem(n, src) == [k |-> "data", n |-> n, src |-> src]
ZrleItem(n) == [k |-> "zrle", n |-> n, src |-> "server"]

\* usize values are kept as three 16-bit limbs (l0 the lowest), which holds
\* every product payload_size forms; usize itself has UsizeLimbs limbs
Limbs(l2, l1, l0) == [l2 |-> l2, l1 |-> l1, l0 |-> l0]

\* carries propagated from l0 upwards
Carry(l2, l1, l0) ==
    Limbs(l2 + ((l1 + (l0 \div U16)) \div U16), (l1 + (l0 \div U16)) % U16,
          l0 % U16)

\* a as usize * b as usize, for a, b below 2^16
MulU16(a, b) ==
    LET low == a * (b % 256)
        high == a * (b \div 256)
    IN Carry(0, (low \div U16) + (high \div 256),
             (low % U16) + ((high % 256) * 256))

\* v * k for a small k, v + n for n below 2^30
MulSmall(v, k) == Carry(v.l2 * k, v.l1 * k, v.l0 * k)
AddSmall(v, n) == Carry(v.l2, v.l1 + (n \div U16), v.l0 + (n % U16))

\* mutant: usize of a 32-bit target
Usize32Limbs == 32 \div 16

\* the width of usize, in 16-bit limbs (64-bit target)
UsizeLimbs == 64 \div 16

\* a usize operation overflows (the debug build panics), and what the
\* release build keeps of its result
UsizeOverflows(v) ==
    \/ UsizeLimbs < 3 /\ v.l2 # 0
    \/ UsizeLimbs < 2 /\ v.l1 # 0
UsizeWrap(v) ==
    Limbs(IF UsizeLimbs < 3 THEN 0 ELSE v.l2,
          IF UsizeLimbs < 2 THEN 0 ELSE v.l1, v.l0)

\* Rectangle::payload_size as usize arithmetic, operation by operation
PayloadLimbs(rect, format) ==
    LET k == format.bits_per_pixel \div 8
        area == UsizeWrap(MulU16(rect.width, rect.height))
        pixels == UsizeWrap(MulSmall(area, k))
        mask == ((rect.width + 7) \div 8) * rect.height
    IN CASE rect.encoding = Enc("Raw") -> pixels
         [] rect.encoding = Enc("Cursor") -> UsizeWrap(AddSmall(pixels, mask))
         [] rect.encoding = Enc("CopyRect") -> Limbs(0, 0, 4)

\* an operation of payload_size overflows usize
PayloadOverflows(rect, format) ==
    LET k == format.bits_per_pixel \div 8
        area == MulU16(rect.width, rect.height)
        pixels == MulSmall(UsizeWrap(area), k)
        mask == ((rect.width + 7) \div 8) * rect.height
    IN /\ rect.encoding \in {Enc("Raw"), Enc("Cursor")}
       /\ \/ UsizeOverflows(area)
          \/ UsizeOverflows(pixels)
          \/ /\ rect.encoding = Enc("Cursor")
             /\ UsizeOverflows(AddSmall(UsizeWrap(pixels), mask))

\* Rectangle::payload_size for the encodings it sizes, as a number (for
\* payloads below 2^31 bytes)
PayloadSize(rect, format) ==
    LET v == PayloadLimbs(rect, format) IN (v.l1 * U16) + v.l0

\* Rectangle::payload_size reaches unimplemented!()
PayloadUnsupported(rect) ==
    rect.encoding \notin {Enc("Raw"), Enc("Cursor"), Enc("CopyRect")}

\* mutant: the relay is back at its select! after every rectangle
SelectAfterEach(left, send_icon) == "select"

\* where a frame continues once s rectangles are left
FramePc(left, send_icon) ==
    IF left > 0 THEN "rect" ELSE IF send_icon THEN "icon" ELSE "select"

\* where next_request returns to
AfterRequestPc == IF s2c_after = "msg" THEN "header" ELSE "st_header"

\* line 253: mark_unchanged
S2CStart ==
    /\ s2c_pc = "start"
    /\ changed' = [changed EXCEPT ![ConnId] = FALSE]
    /\ s2c_pc' = "select"
    /\ UNCHANGED <<state, events, entered, applied, notified, offered>>
    /\ UNCHANGED frame_fmt
    /\ UNCHANGED <<s2c_after, s2c_count, s2c_left, s2c_send_icon, s2c_rect,
                   icon_sent, serverRead, serverIn, reclaimed, clientOut>>
    /\ UNCHANGED <<c2sVars, sharedVars, h_pc, wireVars,
                   hsVars, acceptVars>>

\* line 257 and handle_message up to next_request, or lines 298-300: the
\* message m read from the server
S2CMessage(m) ==
    /\ s2c_pc = "select"
    /\ serverRead < MaxS2C
    /\ serverRead' = serverRead + 1
    /\ serverIn' = Append(serverIn, MsgItem(m, "server"))
    /\ UNCHANGED reclaimed
    /\ IF m.type = "FramebufferUpdate"
       THEN /\ s2c_count' = m.count
            /\ s2c_after' = "msg"
            /\ s2c_pc' = "nr_try"
            /\ UNCHANGED clientOut
       ELSE /\ clientOut' = Append(clientOut, MsgItem(m, "server"))
            /\ UNCHANGED <<s2c_count, s2c_after, s2c_pc>>
    /\ UNCHANGED frame_fmt
    /\ UNCHANGED <<s2c_left, s2c_send_icon, s2c_rect, icon_sent>>
    /\ UNCHANGED <<coreVars, c2sVars, sharedVars, h_pc, wireVars,
                   hsVars, acceptVars>>

\* mutant: the overlay is composed at every pixel format
InjectAlways(format) == TRUE

\* mutant: the overlay is never composed
InjectNever(format) == FALSE

\* lines 268 and 306: the overlay is composed only at 32 bits per pixel
Injects(format) == format.bits_per_pixel = 32

\* line 258 and handle_state_changed up to next_request
S2CStateChanged ==
    /\ s2c_pc = "select"
    /\ changed[ConnId]
    /\ changed' = [changed EXCEPT ![ConnId] = FALSE]
    /\ IF Injects(fmt)
       THEN s2c_after' = "state" /\ s2c_pc' = "nr_try"
       ELSE UNCHANGED <<s2c_after, s2c_pc>>
    /\ UNCHANGED <<state, events, entered, applied, notified, offered>>
    /\ UNCHANGED frame_fmt
    /\ UNCHANGED <<s2c_count, s2c_left, s2c_send_icon, s2c_rect, icon_sent,
                   serverRead, serverIn, reclaimed, clientOut>>
    /\ UNCHANGED <<c2sVars, sharedVars, h_pc, wireVars,
                   hsVars, acceptVars>>

\* mutant: next_request returns without a request when there is none
NoWaitPc(got) == AfterRequestPc

\* next_request, lines 339-344: with the request of try_recv it returns,
\* without one it goes on to wait for one
TryRecvPc(got) == IF got THEN AfterRequestPc ELSE "nr_store_false"

\* next_request, line 339: try_recv
S2CTryRecv ==
    /\ s2c_pc = "nr_try"
    /\ fbreq' = IF fbreq # <<>> THEN Tail(fbreq) ELSE fbreq
    /\ s2c_pc' = TryRecvPc(fbreq # <<>>)
    /\ UNCHANGED <<fmt, forward_request>>
    /\ UNCHANGED frame_fmt
    /\ UNCHANGED <<s2c_after, s2c_count, s2c_left, s2c_send_icon, s2c_rect,
                   icon_sent, serverRead, serverIn, reclaimed, clientOut>>
    /\ UNCHANGED <<coreVars, c2sVars, h_pc, wireVars,
                   hsVars, acceptVars>>

\* next_request, line 344
S2CStoreFalse ==
    /\ s2c_pc = "nr_store_false"
    /\ forward_request' = FALSE
    /\ s2c_pc' = "nr_recv"
    /\ UNCHANGED <<fmt, fbreq>>
    /\ UNCHANGED frame_fmt
    /\ UNCHANGED <<s2c_after, s2c_count, s2c_left, s2c_send_icon, s2c_rect,
                   icon_sent, serverRead, serverIn, reclaimed, clientOut>>
    /\ UNCHANGED <<coreVars, c2sVars, h_pc, wireVars,
                   hsVars, acceptVars>>

\* next_request, line 345: recv().await.unwrap(); recv gives None once the
\* C2S handler (the only sender) is dropped and the channel is empty
S2CRecv ==
    /\ s2c_pc = "nr_recv"
    /\ \/ /\ fbreq # <<>>
          /\ fbreq' = Tail(fbreq)
          /\ reclaimed' = Append(reclaimed, Head(fbreq))
          /\ s2c_pc' = "nr_store_true"
       \/ /\ fbreq = <<>>
          /\ Ended(c2s_pc)
          /\ fbreq' = fbreq
          /\ reclaimed' = reclaimed
          /\ s2c_pc' = "panicked"
    /\ UNCHANGED <<fmt, forward_request>>
    /\ UNCHANGED frame_fmt
    /\ UNCHANGED <<s2c_after, s2c_count, s2c_left, s2c_send_icon, s2c_rect,
                   icon_sent, serverRead, serverIn, clientOut>>
    /\ UNCHANGED <<coreVars, c2sVars, h_pc, wireVars,
                   hsVars, acceptVars>>

\* next_request, line 346
S2CStoreTrue ==
    /\ s2c_pc = "nr_store_true"
    /\ forward_request' = TRUE
    /\ s2c_pc' = AfterRequestPc
    /\ UNCHANGED <<fmt, fbreq>>
    /\ UNCHANGED frame_fmt
    /\ UNCHANGED <<s2c_after, s2c_count, s2c_left, s2c_send_icon, s2c_rect,
                   icon_sent, serverRead, serverIn, reclaimed, clientOut>>
    /\ UNCHANGED <<coreVars, c2sVars, h_pc, wireVars,
                   hsVars, acceptVars>>

\* lines 269-273: the count written to the client (u16, release build)
HeaderCount(count, send_icon) ==
    IF send_icon THEN AddU16(count, 1) ELSE count

\* lines 268-275: send_icon is fixed, and the header is written; count + 1
\* overflows u16 at 65535: the debug build panics, the release build wraps
S2CHeader ==
    /\ s2c_pc = "header"
    /\ LET send_icon == Injects(fmt)
       IN \/ /\ send_icon /\ OverflowsU16(s2c_count, 1)
             /\ s2c_pc' = "panicked"
             /\ UNCHANGED <<s2c_send_icon, frame_fmt, s2c_left, clientOut>>
          \/ /\ s2c_send_icon' = send_icon
             /\ frame_fmt' = fmt
             /\ s2c_left' = s2c_count
             /\ clientOut' = Append(clientOut,
                  MsgItem(FramebufferUpdate(HeaderCount(s2c_count, send_icon)),
                          "server"))
             /\ s2c_pc' = FramePc(s2c_count, send_icon)
    /\ UNCHANGED <<s2c_after, s2c_count, s2c_rect, icon_sent, serverRead,
                   serverIn, reclaimed>>
    /\ UNCHANGED <<coreVars, c2sVars, sharedVars, h_pc, wireVars,
                   hsVars, acceptVars>>

\* lines 278-279: the rectangle header r read from the server is forwarded;
\* line 286: DesktopSize has no payload
S2CRect(r) ==
    /\ s2c_pc = "rect"
    /\ serverRead < MaxS2C
    /\ serverRead' = serverRead + 1
    /\ serverIn' = Append(serverIn, RectItem(r, "server"))
    /\ UNCHANGED reclaimed
    /\ clientOut' = Append(clientOut, RectItem(r, "server"))
    /\ s2c_rect' = r
    /\ IF r.encoding = Enc("DesktopSize")
       THEN /\ s2c_left' = s2c_left - 1
            /\ s2c_pc' = FramePc(s2c_left - 1, s2c_send_icon)
       ELSE /\ s2c_left' = s2c_left
            /\ s2c_pc' = "payload"
    /\ UNCHANGED frame_fmt
    /\ UNCHANGED <<s2c_after, s2c_count, s2c_send_icon, icon_sent>>
    /\ UNCHANGED <<coreVars, c2sVars, sharedVars, h_pc, wireVars,
                   hsVars, acceptVars>>

\* lines 282-291: the payload is relayed; a Zrle message delimits itself
\* (its length n is the server's), any other payload is sized with the pixel
\* format read at this point
S2CPayload(n) ==
    /\ s2c_pc = "payload"
    /\ \/ /\ s2c_rect.encoding = Enc("Zrle")
          /\ serverIn' = Append(serverIn, ZrleItem(n))
          /\ clientOut' = Append(clientOut, ZrleItem(n))
          /\ s2c_left' = s2c_left - 1
          /\ s2c_pc' = FramePc(s2c_left - 1, s2c_send_icon)
       \/ /\ s2c_rect.encoding # Enc("Zrle")
          /\ ~PayloadUnsupported(s2c_rect)
          /\ serverIn' = Append(serverIn,
               DataItem(PayloadSize(s2c_rect, fmt), "server"))
          /\ clientOut' = Append(clientOut,
               DataItem(PayloadSize(s2c_rect, fmt), "server"))
          /\ s2c_left' = s2c_left - 1
          /\ s2c_pc' = FramePc(s2c_left - 1, s2c_send_icon)
       \/ /\ s2c_rect.encoding # Enc("Zrle")
          /\ PayloadUnsupported(s2c_rect)
          /\ s2c_pc' = "panicked"
          /\ UNCHANGED <<clientOut, s2c_left, serverIn>>
    /\ UNCHANGED frame_fmt
    /\ UNCHANGED <<s2c_after, s2c_count, s2c_send_icon, s2c_rect, icon_sent,
                   serverRead, reclaimed>>
    /\ UNCHANGED <<coreVars, c2sVars, sharedVars, h_pc, wireVars,
                   hsVars, acceptVars>>

\* lines 311-314: the header of the unsolicited update
S2CStateHeader ==
    /\ s2c_pc = "st_header"
    /\ clientOut' = Append(clientOut, MsgItem(FramebufferUpdate(1), "proxy"))
    /\ s2c_pc' = "icon"
    /\ UNCHANGED frame_fmt
    /\ UNCHANGED <<s2c_after, s2c_count, s2c_left, s2c_send_icon, s2c_rect,
                   icon_sent, serverRead, serverIn, reclaimed>>
    /\ UNCHANGED <<coreVars, c2sVars, sharedVars, h_pc, wireVars,
                   hsVars, acceptVars>>

\* send_icon: the icon of the current state as a Raw rectangle and its bytes
S2CSendIcon ==
    /\ s2c_pc = "icon"
    /\ LET icon == Icon(state, ConnId)
           rect == Rectangle(icon.x, icon.y, icon.width, icon.height,
                             Enc("Raw"))
       IN clientOut' = clientOut \o <<RectItem(rect, "proxy"),
                                      DataItem(icon.rgba_len, "proxy")>>
    /\ icon_sent' = TRUE
    /\ s2c_pc' = "select"
    /\ UNCHANGED frame_fmt
    /\ UNCHANGED <<s2c_after, s2c_count, s2c_left, s2c_send_icon, s2c_rect,
                   serverRead, serverIn, reclaimed>>
    /\ UNCHANGED <<coreVars, c2sVars, sharedVars, h_pc, wireVars,
                   hsVars, acceptVars>>

\* a read from the server or a write to the client fails (EOF, I/O error,
\* decode error): the task returns Err and its handler is dropped
S2CFail ==
    /\ s2c_pc \in {"select", "header", "rect", "payload", "st_header", "icon"}
    /\ s2c_pc' = "exited"
    /\ UNCHANGED frame_fmt
    /\ UNCHANGED <<s2c_after, s2c_count, s2c_left, s2c_send_icon, s2c_rect,
                   icon_sent, serverRead, serverIn, reclaimed, clientOut>>
    /\ UNCHANGED <<coreVars, c2sVars, sharedVars, h_pc, wireVars,
                   hsVars, acceptVars>>

(* ------------------------- Client::handle task ------------------------ *)
\* lines 93-96: select! over the two JoinHandles, each result unwrapped; the
\* JoinHandle of the other task is dropped, which detaches that task
HandleJoin ==
    /\ h_pc = "select"
    /\ \E pc \in {c2s_pc, s2c_pc} :
          /\ Ended(pc)
          /\ h_pc' = IF pc = "panicked" THEN "panicked" ELSE "disconnect"
    /\ UNCHANGED <<coreVars, c2sVars, sharedVars, s2cVars, wireVars,
                   hsVars, acceptVars>>

\* lines 98-101: send(Disconnect).await waits for room in the channel
HandleDisconnect ==
    /\ h_pc = "disconnect"
    /\ Len(events) < EventCap
    /\ events' = Append(events, Disconnect(ConnId))
    /\ entered' = Append(entered, Disconnect(ConnId))
    /\ h_pc' = "done"
    /\ UNCHANGED <<state, changed, applied, notified, offered>>
    /\ UNCHANGED <<c2sVars, sharedVars, s2cVars, wireVars,
                   hsVars, acceptVars>>

(* ----------------------- run_proxy: the accept loop ------------------- *)
\* mutant: every connection gets the id 0
AssignZero(counter) == 0

\* lib.rs lines 75-76: the id given to the connection being accepted
AssignId(counter) == counter

\* mutant: the connection is handled inside run_proxy's loop, its failure
\* returns from run_proxy
TaskPanicStops(l) == "returned"

\* lib.rs lines 78-85: the connection runs in a task of its own
\* (tokio::spawn), so its unwrap() panics that task and not run_proxy
AfterTaskPanic(l) == l

\* the accept arm of the select (lines 70-85): accept() or peer_addr() may
\* fail, and `?` then returns from run_proxy; otherwise the connection gets
\* the next id and its task is spawned
Accept(outcome, limit) ==
    /\ listener = "running"
    /\ client_counter < limit
    /\ IF outcome = "ok"
       THEN /\ conns' = Append(conns, [id |-> AssignId(client_counter),
                                       st |-> "handle", sent |-> <<>>])
            /\ client_counter' = client_counter + 1
            /\ UNCHANGED listener
       ELSE /\ listener' = "returned"
            /\ UNCHANGED <<client_counter, conns>>
    /\ UNCHANGED <<coreVars, c2sVars, sharedVars, s2cVars, h_pc, wireVars,
                   hsVars>>

AcceptOutcomes == {"ok", "accept_err", "peer_addr_err"}

\* the connect and the handshake of connection i (Client::handle lines
\* 44-59): an Err returned by handle is unwrapped in the spawned task
\* (lib.rs line 84), a failed assert_eq! panics it directly
ConnHandshake(i, outcome) ==
    /\ listener = "running"
    /\ i \in 1..Len(conns)
    /\ conns[i].st = "handle"
    /\ IF outcome = "ok"
       THEN /\ conns' = [conns EXCEPT ![i].st = "relay"]
            /\ UNCHANGED listener
       ELSE /\ conns' = [conns EXCEPT ![i].st = "panicked"]
            /\ listener' = AfterTaskPanic(listener)
    /\ UNCHANGED client_counter
    /\ UNCHANGED <<coreVars, c2sVars, sharedVars, s2cVars, h_pc, wireVars,
                   hsVars>>

HandshakeOutcomes == {"ok", "connect_err", "handshake_err", "assert_failed"}

\* the C2S relay of connection i captures a click: send_action with the id
\* the Client was built with
ConnAction(i, limit) ==
    /\ listener = "running"
    /\ i \in 1..Len(conns)
    /\ conns[i].st = "relay"
    /\ offered < limit
    /\ offered' = offered + 1
    /\ EventsOffer(Action(conns[i].id))
    /\ conns' = [conns EXCEPT ![i].sent = Append(@, Action(conns[i].id))]
    /\ UNCHANGED <<state, changed, applied, notified>>
    /\ UNCHANGED <<client_counter, listener>>
    /\ UNCHANGED <<c2sVars, sharedVars, s2cVars, h_pc, wireVars, hsVars>>

\* a relay task of connection i ends (Client::handle lines 93-96): with an
\* Err (I/O, decode), and handle goes on to send Disconnect; or with a
\* panic, and r.unwrap() panics the connection's task
ConnRelayEnd(i, outcome) ==
    /\ listener = "running"
    /\ i \in 1..Len(conns)
    /\ conns[i].st = "relay"
    /\ IF outcome = "err"
       THEN /\ conns' = [conns EXCEPT ![i].st = "disconnect"]
            /\ UNCHANGED listener
       ELSE /\ conns' = [conns EXCEPT ![i].st = "panicked"]
            /\ listener' = AfterTaskPanic(listener)
    /\ UNCHANGED client_counter
    /\ UNCHANGED <<coreVars, c2sVars, sharedVars, s2cVars, h_pc, wireVars,
                   hsVars>>

\* Client::handle lines 98-103: Disconnect is sent (waiting for room), then
\* handle returns the relay's Err, which lib.rs line 84 unwraps
ConnDisconnect(i) ==
    /\ listener = "running"
    /\ i \in 1..Len(conns)
    /\ conns[i].st = "disconnect"
    /\ Len(events) < EventCap
    /\ events' = Append(events, Disconnect(conns[i].id))
    /\ entered' = Append(entered, Disconnect(conns[i].id))
    /\ conns' = [conns EXCEPT ![i].st = "panicked",
                              ![i].sent = Append(@, Disconnect(conns[i].id))]
    /\ listener' = AfterTaskPanic(listener)
    /\ UNCHANGED <<state, changed, applied, notified, offered>>
    /\ UNCHANGED client_counter
    /\ UNCHANGED <<c2sVars, sharedVars, s2cVars, h_pc, wireVars, hsVars>>

(* ------------------- Client::handle: the handshake -------------------- *)
V33 == <<82, 70, 66, 32, 48, 48, 51, 46, 48, 48, 51, 10>>
V38 == <<82, 70, 66, 32, 48, 48, 51, 46, 48, 48, 56, 10>>

\* client.rs line 119: the version the handshake proceeds with
HsVersion == V33

\* Error::Protocol(text), Error::Decode(e), Error::Io(kind)
ProtocolError(text) == [type |-> "Protocol", text |-> text]
DecodeErr(e) == [type |-> "Decode", e |-> e]
IoError(kind) == [type |-> "Io", kind |-> kind]

\* a peer sends bytes once the proxy has written `need` messages to it
Chunk(need, bytes) == [need |-> need, bytes |-> bytes]

Written(to) == Cardinality({i \in 1..Len(hs_log) : hs_log[i].to = to})

\* a peer's script: its chunks and the index of the next one to send
Script(chunks) == [chunks |-> chunks, next |-> 1]
NoScript == Script(<<>>)
AllSent(script) == script.next > Len(script.chunks)

\* Client::handle line 44: TcpStream::connect(target)
HsConnect(ok) ==
    /\ hs_pc = "connect"
    /\ hs_pc' = IF ok THEN "server_version" ELSE "failed"
    /\ hs_err' = IF ok THEN hs_err ELSE IoError("ConnectionRefused")
    /\ UNCHANGED <<srv_buf, srv_script, cli_buf, cli_script, hs_log>>
    /\ UNCHANGED <<coreVars, c2sVars, sharedVars, s2cVars, h_pc, wireVars,
                   acceptVars>>

\* the upstream server's next bytes arrive
SrvSend ==
    /\ hs_pc # "connect"
    /\ ~AllSent(srv_script)
    /\ srv_script.chunks[srv_script.next].need <= Written("server")
    /\ srv_buf' = srv_buf \o srv_script.chunks[srv_script.next].bytes
    /\ srv_script' = [srv_script EXCEPT !.next = @ + 1]
    /\ UNCHANGED <<hs_pc, hs_err, cli_buf, cli_script, hs_log>>
    /\ UNCHANGED <<coreVars, c2sVars, sharedVars, s2cVars, h_pc, wireVars,
                   acceptVars>>

\* the client's next bytes arrive
CliSend ==
    /\ ~AllSent(cli_script)
    /\ cli_script.chunks[cli_script.next].need <= Written("client")
    /\ cli_buf' = cli_buf \o cli_script.chunks[cli_script.next].bytes
    /\ cli_script' = [cli_script EXCEPT !.next = @ + 1]
    /\ UNCHANGED <<hs_pc, hs_err, srv_buf, srv_script, hs_log>>
    /\ UNCHANGED <<coreVars, c2sVars, sharedVars, s2cVars, h_pc, wireVars,
                   acceptVars>>

\* what the handshake reads at each position: from whom, which message type
HsReads ==
    [server_version |-> [from |-> "server", kind |-> "Version"],
     client_version |-> [from |-> "client", kind |-> "Version"],
     sec_result33   |-> [from |-> "server", kind |-> "SecurityResult"],
     sec_err        |-> [from |-> "server", kind |-> "String"],
     sec_types      |-> [from |-> "server", kind |-> "SecurityTypes"],
     sec_type       |-> [from |-> "client", kind |-> "SecurityType"],
     sec_result38   |-> [from |-> "server", kind |-> "SecurityResult"],
     client_init    |-> [from |-> "client", kind |-> "ClientInit"],
     server_init    |-> [from |-> "server", kind |-> "ServerInit"]]

HsReading == hs_pc \in DOMAIN HsReads

HsBuf == IF HsReads[hs_pc].from = "server" THEN srv_buf ELSE cli_buf

\* read_message::<M> on the bytes received so far
HsDecode ==
    IF HsReads[hs_pc].kind = "String" THEN StringReadFrom(HsBuf)
    ELSE ReadFrom(HsReads[hs_pc].kind, HsBuf)

\* mutant: any security type is accepted
AcceptAnyType(sec_type) == "client_init"

\* lines 149-156: assert_eq!(sec_type, 1), then the SecurityResult of 3.8
AfterSecType(sec_type) ==
    IF sec_type # 1 THEN "panicked"
    ELSE IF HsVersion = V38 THEN "sec_result38"
    ELSE "client_init"

\* the position after the message v was read at hs_pc (and forwarded)
HsNextPc(v) ==
    CASE hs_pc = "server_version" -> "client_version"
      [] hs_pc = "client_version" ->
            IF HsVersion = V33 THEN "sec_result33" ELSE "sec_types"
      [] hs_pc = "sec_result33" ->
            IF v = 0 THEN "sec_err" ELSE AfterSecType(v)
      [] hs_pc = "sec_types" -> IF v = <<>> THEN "sec_err" ELSE "sec_type"
      [] hs_pc = "sec_type" -> AfterSecType(v)
      [] hs_pc = "sec_result38" -> "client_init"
      [] hs_pc = "client_init" -> "server_init"
      [] hs_pc = "server_init" -> "handshaken"
      [] hs_pc = "sec_err" -> "failed"

\* one read_message of Client::handshake with what follows it up to the
\* next await: the message is written to the other peer (the reason string
\* of sec_err is not: it becomes Error::Protocol), the security type is
\* asserted, ServerInit's pixel format is the result
Handshake ==
    /\ HsReading
    /\ LET r == HsDecode
           from == HsReads[hs_pc].from
           to == IF from = "server" THEN "client" ELSE "server"
       IN /\ r # InsufficientBytes
          /\ IF r.st = "ok"
             THEN /\ hs_pc' = HsNextPc(r.v)
                  /\ hs_err' = IF hs_pc = "sec_err"
                               THEN ProtocolError(r.v) ELSE hs_err
                  /\ hs_log' = IF hs_pc = "sec_err" THEN hs_log
                               ELSE Append(hs_log,
                                      [to |-> to,
                                       kind |-> HsReads[hs_pc].kind,
                                       m |-> r.v])
                  /\ srv_buf' = IF from = "server" THEN r.rest ELSE srv_buf
                  /\ cli_buf' = IF from = "client" THEN r.rest ELSE cli_buf
                  /\ fmt' = IF hs_pc = "server_init"
                            THEN r.v.pixel_format ELSE fmt
             ELSE /\ hs_pc' = IF r = Panic THEN "panicked" ELSE "failed"
                  /\ hs_err' = IF r = Panic THEN hs_err ELSE DecodeErr(r)
                  /\ UNCHANGED <<hs_log, srv_buf, cli_buf, fmt>>
    /\ UNCHANGED <<srv_script, cli_script, fbreq, forward_request>>
    /\ UNCHANGED <<coreVars, c2sVars, s2cVars, h_pc, wireVars, acceptVars>>

\* read_message when the peer has closed its side before the message is
\* complete: read_buf returns 0, Err(UnexpectedEof)
HsEof ==
    /\ HsReading
    /\ HsDecode = InsufficientBytes
    /\ IF HsReads[hs_pc].from = "server"
       THEN AllSent(srv_script) ELSE AllSent(cli_script)
    /\ hs_pc' = "failed"
    /\ hs_err' = IoError("UnexpectedEof")
    /\ UNCHANGED <<srv_buf, srv_script, cli_buf, cli_script, hs_log>>
    /\ UNCHANGED <<coreVars, c2sVars, sharedVars, s2cVars, h_pc, wireVars,
                   acceptVars>>

\* Client::handle lines 61-91: the channels are made and the two relay
\* tasks are spawned
HsSpawn ==
    /\ hs_pc = "handshaken"
    /\ hs_pc' = "spawned"
    /\ UNCHANGED <<hs_err, srv_buf, srv_script, cli_buf, cli_script, hs_log>>
    /\ UNCHANGED <<coreVars, c2sVars, sharedVars, s2cVars, h_pc, wireVars,
                   acceptVars>>

(* --------------------------- specifications --------------------------- *)
\* the state after Client::handle built the two handlers (lines 61-91); the
\* initial pixel format is the one of ServerInit
InitTasks(formats) ==
    /\ state = <<>>
    /\ changed = [c \in Clients |-> FALSE]
    /\ events = <<>> /\ entered = <<>> /\ applied = <<>>
    /\ notified = 0 /\ offered = 0
    /\ c2s_pc = "read" /\ c2s_req = <<>> /\ mouse_pressed = FALSE
    /\ clientIn = <<>> /\ serverOut = <<>>
    /\ fmt \in formats
    /\ fbreq = <<>> /\ forward_request = TRUE
    /\ s2c_pc = "start" /\ s2c_after = "msg" /\ s2c_count = 0
    /\ s2c_left = 0 /\ s2c_send_icon = FALSE
    /\ frame_fmt = fmt
    /\ s2c_rect = Rectangle(0, 0, 0, 0, Enc("Raw"))
    /\ icon_sent = FALSE /\ serverRead = 0 /\ serverIn = <<>>
    /\ reclaimed = <<>>
    /\ clientOut = <<>>
    /\ h_pc = "select"

\* the handshake of the connection is over and its relays are spawned
HsDone ==
    /\ hs_pc = "spawned" /\ hs_err = "none"
    /\ srv_buf = <<>> /\ srv_script = NoScript
    /\ cli_buf = <<>> /\ cli_script = NoScript
    /\ hs_log = <<>>

\* run_proxy has accepted the two connections PeerId and ConnId
AcceptIdle ==
    /\ client_counter = 2
    /\ listener = "running"
    /\ conns = <<[id |-> PeerId, st |-> "relay", sent |-> <<>>],
                 [id |-> ConnId, st |-> "relay", sent |-> <<>>]>>

InitConn(formats) == InitTasks(formats) /\ HsDone /\ AcceptIdle

\* no message is followed on the wire
InitRelay(formats) ==
    /\ InitConn(formats)
    /\ w_pc = "idle" /\ w_msg = Typed("S2C", Bell) /\ w_next = <<>>
    /\ w_buf = <<>> /\ w_res = InsufficientBytes

Request == FramebufferUpdateRequest(TRUE, 0, 0, 100, 100)

\* every step of the S2C relay task, on the server's messages msgs and
\* rectangle headers rects
S2CStep(msgs, rects) ==
    \/ S2CStart
    \/ \E m \in msgs : S2CMessage(m)
    \/ S2CStateChanged
    \/ S2CTryRecv
    \/ S2CStoreFalse
    \/ S2CRecv
    \/ S2CStoreTrue
    \/ S2CHeader
    \/ \E r \in rects : S2CRect(r)
    \/ \E n \in {7} : S2CPayload(n)
    \/ S2CStateHeader
    \/ S2CSendIcon

\* ---- Spec: the frames of one connection, both relays running ----
\* (the session starts at 32 or 16 bits per pixel and may move to 8; SpecFmt
\* has the moves back to 32)
RelayC2S == {SetPixelFormat(PF8), Request}
RelayS2C == {FramebufferUpdate(c) : c \in {0, 2, 65535}} \cup {Bell}
RelayRects ==
    {Rectangle(0, 0, 10, 10, Enc(t)) :
        t \in {"Raw", "Zrle", "DesktopSize", "Hextile"}}

Init == InitRelay({PF32, PF16})

Next ==
    \/ \E m \in RelayC2S : C2SHandle(m)
    \/ C2SLoad
    \/ S2CStep(RelayS2C, RelayRects)
    \/ SendAction(PeerId, MaxPeer)
    \/ WriterApply

Spec == Init /\ [][Next]_vars

\* ---- SpecC2S: the C2S relay on everything a client sends ----
Points == {<<5, 5>>, <<20, 5>>, <<65532, 5>>}
InputC2S ==
    {SetEncodings(<<EncUnknown(7), Enc("Hextile")>>), SetEncodings(<<>>),
     KeyEvent(TRUE, 65), C2SCutText(<<104, 105>>), SetPixelFormat(PF8)}
      \cup {PointerEvent(mask, p[1], p[2]) : mask \in {0, 1}, p \in Points}

InitC2S == InitRelay({PF32})

NextC2S ==
    \/ \E m \in InputC2S : C2SHandle(m)
    \/ C2SReadFail
    \/ SendAction(PeerId, MaxPeer)
    \/ WriterApply

SpecC2S == InitC2S /\ [][NextC2S]_vars

\* ---- SpecLife: the life of one connection, from the relays to Disconnect
LifeS2C == {FramebufferUpdate(1), Bell}
LifeRects == {Rectangle(0, 0, 10, 10, Enc(t)) : t \in {"Raw", "Hextile"}}

InitLife == InitRelay({PF32})

NextLife ==
    \/ C2SHandle(Request)
    \/ C2SLoad
    \/ C2SReadFail
    \/ S2CStep(LifeS2C, LifeRects)
    \/ S2CFail
    \/ SendAction(PeerId, MaxPeer)
    \/ WriterApply
    \/ HandleJoin
    \/ HandleDisconnect

SpecLife == InitLife /\ [][NextLife]_vars

\* ---- SpecFmt: the pixel format between the two relays ----
FmtC2S == {SetPixelFormat(PF8), SetPixelFormat(PF32), Request}
FmtS2C == {FramebufferUpdate(1)}
FmtRects == {Rectangle(0, 0, 10, 10, Enc("Raw"))}

InitFmt == InitRelay({PF32, PF16})

NextFmt ==
    \/ \E m \in FmtC2S : C2SHandle(m)
    \/ C2SLoad
    \/ S2CStep(FmtS2C, FmtRects)
    \/ SendAction(PeerId, MaxPeer)
    \/ WriterApply

SpecFmt == InitFmt /\ [][NextFmt]_vars

\* ---- SpecCore: run_proxy's writer and the events of K = 2 connections ----
InitCore == InitRelay({PF32})

NextCore ==
    \/ \E id \in Clients : SendAction(id, MaxEvents)
    \/ \E id \in Clients : SendDisconnect(id, MaxEvents)
    \/ WriterApply
    \/ \E id \in Clients : Wake(id)

SpecCore == InitCore /\ [][NextCore]_vars

(* ------------------------------- claims ------------------------------- *)
Last(seq) == seq[Len(seq)]
CountType(seq, type) == Cardinality({i \in 1..Len(seq) : seq[i].type = type})

\* C1: whatever list a client's SetEncodings holds, the server receives one
\* SetEncodings per client SetEncodings, and its list is Raw, Cursor,
\* CopyRect, ZRLE in that order; the client's own list never reaches it.
C1_EncodingRewrite ==
    /\ \A i \in 1..Len(serverOut) :
          serverOut[i].type = "SetEncodings"
            => serverOut[i].encodings
                 = <<Enc("Raw"), Enc("Cursor"), Enc("CopyRect"), Enc("Zrle")>>
    /\ CountType(serverOut, "SetEncodings")
         <= CountType(clientIn, "SetEncodings")
    /\ c2s_pc = "read"
         => CountType(serverOut, "SetEncodings")
              = CountType(clientIn, "SetEncodings")

\* C1 witness: an unknown/unsupported list and an empty list were both sent
\* and both forwarded
C1_Witness ==
    /\ c2s_pc = "read"
    /\ clientIn = <<SetEncodings(<<EncUnknown(7), Enc("Hextile")>>),
                    SetEncodings(<<>>)>>
    /\ Len(serverOut) = 2

\* the C2S relay handles the PointerEvent m in this step
PointerStep(m) ==
    /\ clientIn' = Append(clientIn, m)
    /\ m.type = "PointerEvent"

\* C4 (as claimed): press at (x,y), then release at (x,y).  The press is
\* forwarded.  If (x,y) is inside the box of icon(id) of the current state,
\* the release puts exactly one Action{id} on the event channel and is not
\* forwarded; if it is outside, the release is forwarded and no Action is
\* emitted.  (A failed write to the server is not held against the claim.)
C4_ClickCapture ==
    [][\A m \in InputC2S :
         /\ PointerStep(m) /\ m.button_mask = 1
              => /\ entered' = entered
                 /\ \/ serverOut' = Append(serverOut, m)
                    \/ c2s_pc' = "exited"
         /\ PointerStep(m) /\ m.button_mask = 0 /\ clientIn # <<>>
              /\ Last(clientIn) = PointerEvent(1, m.x, m.y)
              => IF InBox(Icon(state, ConnId), m.x, m.y)
                 THEN /\ entered' = Append(entered, Action(ConnId))
                      /\ serverOut' = serverOut
                      /\ c2s_pc' = "read"
                 ELSE /\ entered' = entered
                      /\ \/ serverOut' = Append(serverOut, m)
                         \/ c2s_pc' = "exited"]_vars

\* ---- the frames on the client stream ----
\* index of the last S2C message header written to the client (0: none)
LastMsgIdx ==
    LET idx == {i \in 1..Len(clientOut) : clientOut[i].k = "msg"}
    IN IF idx = {} THEN 0 ELSE CHOOSE i \in idx : \A j \in idx : j <= i

LastMsg == clientOut[LastMsgIdx]

\* the items written after the last message header
FrameItems == SubSeq(clientOut, LastMsgIdx + 1, Len(clientOut))

FrameRects(src) ==
    {i \in 1..Len(FrameItems) :
        FrameItems[i].k = "rect" /\ FrameItems[i].src = src}

LastIsUpdate ==
    /\ LastMsgIdx > 0
    /\ LastMsg.m.type = "FramebufferUpdate"

\* the S2C relay is between two messages: what it wrote is complete
S2CIdle ==
    s2c_pc \in {"start", "select", "nr_try", "nr_store_false", "nr_recv",
                "nr_store_true", "header", "st_header"}

\* the last header on the client stream is the one of the server frame whose
\* count s2c_count holds
InServerFrame ==
    /\ s2c_pc \in {"rect", "payload", "icon", "select"}
    /\ LastIsUpdate
    /\ LastMsg.src = "server"

\* the S2C relay leaves line 275 in this step (it wrote the header, or died)
HeaderStep == s2c_pc = "header" /\ s2c_pc' # "header"

IconRect(s) ==
    LET icon == Icon(s, ConnId)
    IN Rectangle(icon.x, icon.y, icon.width, icon.height, Enc("Raw"))

\* C2 (as claimed): at 32 bits per pixel every FramebufferUpdate{c} read
\* from the server gives the client a header with count c + 1, then the c
\* server rectangles, then exactly one Raw rectangle with the geometry of an
\* icon, which is the last rectangle of the frame.
C2_OverlayInjection ==
    /\ [][HeaderStep /\ fmt.bits_per_pixel = 32
            => clientOut' = Append(clientOut,
                 MsgItem(FramebufferUpdate(s2c_count + 1), "server"))]_vars
    /\ [](InServerFrame /\ LastMsg.m.count = s2c_count + 1
            => /\ \A i \in FrameRects("proxy") : \A j \in FrameRects("server") :
                     j < i
               /\ Cardinality(FrameRects("server")) <= s2c_count
               /\ s2c_pc = "select"
                    => /\ Cardinality(FrameRects("server")) = s2c_count
                       /\ Cardinality(FrameRects("proxy")) = 1
                       /\ \E s \in LockStates :
                             FrameItems[Len(FrameItems) - 1]
                               = RectItem(IconRect(s), "proxy"))

\* C3 (as claimed): the count of every FramebufferUpdate header written to
\* the client is the number of rectangle headers written after it, before the
\* next message header: never more rectangles than announced, and exactly as
\* many once the relay is done with the frame.
C3_CountMatchesRects ==
    LastIsUpdate
      => LET n == Cardinality(FrameRects("server") \cup FrameRects("proxy"))
         IN /\ n <= LastMsg.m.count
            /\ S2CIdle => n = LastMsg.m.count

\* C9: at 8 or 16 bits per pixel the header of a FramebufferUpdate{c} is
\* written with count c, nothing is injected into a frame whose count was
\* not rewritten, and a state change returns without writing to the client
\* and without touching the request channel.
C9_NoInjection ==
    /\ [][HeaderStep /\ fmt.bits_per_pixel \in {8, 16}
            => clientOut' = Append(clientOut,
                 MsgItem(FramebufferUpdate(s2c_count), "server"))]_vars
    /\ [][(/\ s2c_pc = "select" /\ changed[ConnId] /\ ~changed'[ConnId]
           /\ fmt.bits_per_pixel \in {8, 16})
            => /\ s2c_pc' = "select"
               /\ clientOut' = clientOut
               /\ fbreq' = fbreq
               /\ forward_request' = forward_request]_vars
    /\ [](InServerFrame /\ LastMsg.m.count = s2c_count
            => /\ FrameRects("proxy") = {}
               /\ s2c_pc # "icon")

\* C9 witness: a frame of two rectangles was relayed at 8 bits per pixel
\* after a state change had been notified and dropped
C9_Witness ==
    /\ fmt.bits_per_pixel = 8
    /\ s2c_pc = "select"
    /\ InServerFrame
    /\ s2c_count = 2
    /\ LastMsg.m.count = 2
    /\ Cardinality(FrameRects("server")) = 2
    /\ notified > 0 /\ ~changed[ConnId]

\* ---- the state writer ----
\* handle_event folded over a sequence of events, from state s: the state
\* reached and the number of events it returned true for
RECURSIVE Replay(_, _)
Replay(s, seq) ==
    IF seq = <<>>
    THEN [state |-> s, n |-> 0]
    ELSE LET r == HandleEvent(s, Head(seq))
             rest == Replay(r.state, Tail(seq))
         IN [state |-> rest.state,
             n |-> rest.n + (IF r.modified THEN 1 ELSE 0)]

\* C5: the events that entered the channel are applied once each, in the
\* order they entered, each to the state the previous one left; at most one
\* version is published per applied event, exactly one per event for which
\* handle_event returned true; an event for which it returned false
\* publishes nothing and marks no receiver changed.
C5_SingleWriter ==
    /\ [](entered = applied \o events)
    /\ [](state = Replay(<<>>, applied).state)
    /\ [](notified = Replay(<<>>, applied).n /\ notified <= Len(applied))
    /\ [][Len(applied') <= Len(applied) + 1]_vars
    /\ [][applied' # applied /\ ~HandleEvent(state, Head(events)).modified
            => changed' = changed /\ notified' = notified]_vars

\* C5 witness: both clients produced events, all MaxEvents were applied,
\* some changed the state and some did not
C5_Witness ==
    /\ Len(applied) = MaxEvents
    /\ \E i, j \in 1..Len(applied) : applied[i].id # applied[j].id
    /\ notified >= 2
    /\ notified < Len(applied)

\* ---- the life of a connection ----
Disconnects == {i \in 1..Len(entered) : entered[i] = Disconnect(ConnId)}

\* C6 (as claimed): whatever ends the relay of a connection, exactly one
\* Disconnect{id} enters the event channel: never two, and one by the time
\* Client::handle has finished.
C6_OneDisconnect ==
    /\ Cardinality(Disconnects) <= 1
    /\ h_pc \in {"done", "panicked"} => Cardinality(Disconnects) = 1

\* C7 (as claimed): once one relay task has ended, the other reads nothing
\* more from its input socket and writes nothing more to its output socket.
C7_OtherRelayCancelled ==
    [][/\ Ended(c2s_pc) => clientOut' = clientOut /\ serverRead' = serverRead
       /\ Ended(s2c_pc) => serverOut' = serverOut /\ clientIn' = clientIn]_vars

\* ---- SpecLive: two connected clients at 32 bits per pixel, scheduled ----
\* The tokio runtime runs every task that can make progress, and select!
\* polls its ready arms in random order: weak fairness for each task's
\* steps, strong fairness for the changed() arm.  The client sends requests
\* while it has some to send; when the peer clicks is not constrained.
NextLive ==
    \/ C2SHandle(Request)
    \/ C2SLoad
    \/ S2CStep(LifeS2C, LifeRects)
    \/ SendAction(PeerId, MaxPeer)
    \/ WriterApply

SpecLive ==
    /\ InitLife
    /\ [][NextLive]_vars
    /\ WF_vars(C2SHandle(Request))
    /\ WF_vars(C2SLoad)
    /\ WF_vars(S2CStep(LifeS2C, LifeRects))
    /\ SF_vars(S2CStateChanged)
    /\ WF_vars(WriterApply)

\* the unsolicited update for state s: FramebufferUpdate{1}, the Raw
\* rectangle of icon(ConnId), its bytes
UnsolicitedFrame(s) ==
    <<MsgItem(FramebufferUpdate(1), "proxy"), RectItem(IconRect(s), "proxy"),
      DataItem(Icon(s, ConnId).rgba_len, "proxy")>>

\* the relay has seen the latest version, and the last thing it wrote to the
\* client is the unsolicited update carrying the icon of the current state
IconDelivered ==
    /\ ~changed[ConnId]
    /\ s2c_pc = "select"
    /\ Len(clientOut) >= 3
    /\ SubSeq(clientOut, Len(clientOut) - 2, Len(clientOut))
         = UnsolicitedFrame(state)

\* the relay waits for a request and the client sends no more
Starved ==
    /\ s2c_pc = "nr_recv"
    /\ fbreq = <<>>
    /\ c2s_pc = "read"
    /\ Len(clientIn) >= MaxC2S

\* the relay waits for the rest of a frame and the server sends no more
ServerStalled == s2c_pc = "rect" /\ serverRead >= MaxS2C

\* headers of FramebufferUpdates written to the client
UpdateHeaders ==
    {i \in 1..Len(clientOut) :
        clientOut[i].k = "msg" /\ clientOut[i].m.type = "FramebufferUpdate"}

\* every update written to the client has spent a request of its own
RequestSpent ==
    Cardinality(UpdateHeaders)
      <= CountType(clientIn, "FramebufferUpdateRequest")

WriteMessage ==
    /\ w_pc = "write"
    /\ w_buf' = WriteTo(w_msg.kind, w_msg.m) \o w_next
    /\ w_pc' = "read"
    /\ UNCHANGED <<w_msg, w_next, w_res>>
    /\ UNCHANGED <<coreVars, c2sVars, sharedVars, s2cVars, h_pc, hsVars,
                 acceptVars>>

\* RfbIo::read_message, one turn of its loop on the bytes buffered so far:
\* self.buf is taken out and read_from runs on a copy; on Ok the rest goes
\* back into self.buf, on InsufficientBytes the whole buffer goes back, on
\* another error or a panic self.buf stays taken (empty)
BufAfterRead(res, buf) ==
    IF res.st = "ok" THEN res.rest
    ELSE IF res = InsufficientBytes THEN buf
    ELSE <<>>

ReadMessage ==
    /\ w_pc = "read"
    /\ w_res' = ReadFrom(w_msg.kind, w_buf)
    /\ w_buf' = BufAfterRead(ReadFrom(w_msg.kind, w_buf), w_buf)
    /\ w_pc' = "done"
    /\ UNCHANGED <<w_msg, w_next>>
    /\ UNCHANGED <<coreVars, c2sVars, sharedVars, s2cVars, h_pc, hsVars,
                 acceptVars>>

\* ---- SpecWire: one message of every type through write_to and read_from
Hi == <<104, 105>>
PFOdd ==
    [bits_per_pixel |-> 8, depth |-> 255, big_endian |-> TRUE,
     true_colour |-> FALSE, red_max |-> 65535, green_max |-> 256,
     blue_max |-> 0, red_shift |-> 255, green_shift |-> 1, blue_shift |-> 0]

WireC2S ==
    {SetPixelFormat(PF32), SetPixelFormat(PFOdd),
     SetEncodings(<<>>), SetEncodings(FixedEncodings),
     SetEncodings(<<EncUnknown(7), Enc("Hextile"), Enc("DesktopSize"),
                    Enc("Rre"), Enc("Trle")>>),
     SetEncodings(<<EncUnknown(-1), EncUnknown(-2147483647),
                    EncUnknown(2147483647)>>),
     FramebufferUpdateRequest(TRUE, 0, 0, 100, 100),
     FramebufferUpdateRequest(FALSE, 65535, 1, 256, 65535),
     KeyEvent(TRUE, 65), KeyEvent(FALSE, 65307),
     PointerEvent(0, 0, 0), PointerEvent(255, 65535, 258),
     C2SCutText(<<>>), C2SCutText(Hi)}

WireS2C ==
    {FramebufferUpdate(0), FramebufferUpdate(258), FramebufferUpdate(65535),
     SetColorMapEntries(0, <<>>),
     SetColorMapEntries(513, <<0, 1, 2, 3, 4, 5, 6, 7, 8, 9, 10, 255>>),
     Bell, S2CCutText(<<>>), S2CCutText(Hi)}

WireHeaders ==
    {Typed("Version", <<82, 70, 66, 32, 48, 48, 51, 46, 48, 48, 51, 10>>),
     Typed("Version", <<82, 70, 66, 32, 48, 48, 51, 46, 48, 48, 56, 10>>),
     Typed("SecurityTypes", <<>>), Typed("SecurityTypes", <<1>>),
     Typed("SecurityTypes", <<2, 1, 255>>),
     Typed("SecurityType", 0), Typed("SecurityType", 1),
     Typed("SecurityType", 255),
     Typed("SecurityResult", 0), Typed("SecurityResult", 1),
     Typed("SecurityResult", 16909060),
     Typed("ClientInit", ClientInit(TRUE)),
     Typed("ClientInit", ClientInit(FALSE)),
     Typed("ServerInit", ServerInit(800, 600, PF32, <<118, 110, 99>>)),
     Typed("ServerInit", ServerInit(0, 65535, PFOdd, <<>>)),
     Typed("PixelFormat", PF32), Typed("PixelFormat", PF16),
     Typed("PixelFormat", PFOdd),
     Typed("Rectangle", Rectangle(0, 0, 10, 10, Enc("Raw"))),
     Typed("Rectangle", Rectangle(65535, 258, 1, 0, Enc("Cursor"))),
     Typed("Rectangle", Rectangle(1, 2, 3, 4, EncUnknown(7))),
     Typed("Rectangle", Rectangle(1, 2, 3, 4, Enc("Zrle"))),
     Typed("Rectangle", Rectangle(1, 2, 3, 4, Enc("CopyRect")))}

WireMessages ==
    {Typed("C2S", m) : m \in WireC2S} \cup {Typed("S2C", m) : m \in WireS2C}
      \cup WireHeaders

\* what follows the message on the stream: nothing, or the start of another
WireNext == {<<>>, <<2>>, <<0, 0, 0, 1>>}

InitWire ==
    /\ InitConn({PF32})
    /\ w_pc = "write"
    /\ w_msg \in WireMessages
    /\ w_next \in WireNext
    /\ w_buf = <<>>
    /\ w_res = InsufficientBytes

NextWire ==
    \/ WriteMessage
    \/ ReadMessage

SpecWire == InitWire /\ [][NextWire]_vars

\* C10 (as claimed): for every value m of every C2S variant, every S2C
\* variant and every header message, read_from on the bytes write_to
\* produced for m gives m and consumes exactly those bytes: what followed
\* them on the stream is what is left.
C10_RoundTrip ==
    w_pc = "done"
      => /\ w_res.st = "ok"
         /\ w_res.v = w_msg.m
         /\ w_res.rest = w_next

(* ------------------------- partial reads (C11) ------------------------ *)
\* the stream hands read_buf only the first k bytes of the encoded message;
\* the others (w_next) are still on their way
WritePartial(k) ==
    /\ w_pc = "write"
    /\ k < Len(WriteTo(w_msg.kind, w_msg.m))
    /\ w_buf' = Take(WriteTo(w_msg.kind, w_msg.m), k)
    /\ w_next' = Drop(WriteTo(w_msg.kind, w_msg.m), k)
    /\ w_pc' = "read"
    /\ UNCHANGED <<w_msg, w_res>>
    /\ UNCHANGED <<coreVars, c2sVars, sharedVars, s2cVars, h_pc, hsVars,
                 acceptVars>>

\* read_message after InsufficientBytes: stream.read_buf appends what
\* arrives next and the loop decodes again
ReadMore ==
    /\ w_pc = "done"
    /\ w_res = InsufficientBytes
    /\ w_next # <<>>
    /\ w_buf' = w_buf \o w_next
    /\ w_next' = <<>>
    /\ w_pc' = "read"
    /\ UNCHANGED <<w_msg, w_res>>
    /\ UNCHANGED <<coreVars, c2sVars, sharedVars, s2cVars, h_pc, hsVars,
                 acceptVars>>

MaxPrefix == 28

InitPartial ==
    /\ InitConn({PF32})
    /\ w_pc = "write"
    /\ w_msg \in WireMessages
    /\ w_next = <<>>
    /\ w_buf = <<>>
    /\ w_res = InsufficientBytes

NextPartial ==
    \/ \E k \in 0..MaxPrefix : WritePartial(k)
    \/ ReadMessage
    \/ ReadMore

SpecPartial == InitPartial /\ [][NextPartial]_vars

\* the decode attempt was made on a strict prefix: bytes are still to come
OnPrefix == w_pc = "done" /\ w_next # <<>>

\* C11 (as claimed): for every message m of every type and every strict
\* prefix p of its encoding, the decode attempt on p returns
\* InsufficientBytes (no other error, no panic, no message) and the reader's
\* buffer holds exactly p afterwards.
C11_UnderrunSafety ==
    OnPrefix
      => /\ w_res = InsufficientBytes
         /\ w_buf \o w_next = WriteTo(w_msg.kind, w_msg.m)

(* ---------------------- the handshake with its peers ------------------ *)
Bad == <<98, 97, 100>>
VncName == <<118, 110, 99>>
HsServerInit == WriteTo("ServerInit", ServerInit(800, 600, PF32, VncName))
HsServerInit16 == WriteTo("ServerInit", ServerInit(640, 480, PF16, <<>>))

\* upstream servers speaking RFB 3.3: security word 1 (none), 0 (failed,
\* with the reason), 2 (VNC authentication, with its challenge)
Srv33None ==
    <<Chunk(0, V33), Chunk(1, PutU32(1)), Chunk(2, HsServerInit)>>
Srv33None16 ==
    <<Chunk(0, V33), Chunk(1, PutU32(1)), Chunk(2, HsServerInit16)>>
Srv33Fail == <<Chunk(0, V33), Chunk(1, PutU32(0) \o StringWriteTo(Bad))>>
Srv33Vnc ==
    <<Chunk(0, V33),
      Chunk(1, PutU32(2) \o <<1, 2, 3, 4, 5, 6, 7, 8, 9, 10, 11, 12, 13, 14,
                              15, 16>>)>>
\* upstream servers speaking RFB 3.8: the list of security types (empty,
\* with the reason, when the connection is refused), then SecurityResult
Srv38Fail ==
    <<Chunk(0, V38),
      Chunk(1, WriteTo("SecurityTypes", <<>>) \o StringWriteTo(Bad))>>
Srv38None ==
    <<Chunk(0, V38), Chunk(1, WriteTo("SecurityTypes", <<1>>)),
      Chunk(2, PutU32(0)), Chunk(3, HsServerInit)>>
\* a server that closes after its version
SrvCloses == <<Chunk(0, V33)>>
\* a 3.3 server whose security word arrives in two segments
Srv33Split ==
    <<Chunk(0, V33), Chunk(1, <<0, 0>>), Chunk(1, <<0, 1>>),
      Chunk(2, HsServerInit)>>

\* clients: each message answers what the proxy has forwarded so far
Cli33 == <<Chunk(1, V33), Chunk(2, WriteTo("ClientInit", ClientInit(TRUE)))>>
Cli38 ==
    <<Chunk(1, V38), Chunk(2, WriteTo("SecurityType", 1)),
      Chunk(3, WriteTo("ClientInit", ClientInit(FALSE)))>>
CliCloses == <<Chunk(1, V33)>>

HsPeers ==
    {<<Srv33None, Cli33>>, <<Srv33None16, Cli33>>, <<Srv33Fail, Cli33>>,
     <<Srv33Vnc, Cli33>>, <<SrvCloses, Cli33>>, <<Srv33None, CliCloses>>,
     <<Srv33Split, Cli33>>, <<Srv33Fail, CliCloses>>,
     <<Srv38Fail, Cli38>>, <<Srv38None, Cli38>>}

\* before ServerInit is read there is no pixel format channel
NoFormat == MkPixelFormat(0, 0)

InitHandshake ==
    /\ InitTasks({NoFormat})
    /\ AcceptIdle
    /\ hs_pc = "connect" /\ hs_err = "none"
    /\ srv_buf = <<>> /\ cli_buf = <<>> /\ hs_log = <<>>
    /\ \E p \in HsPeers :
          srv_script = Script(p[1]) /\ cli_script = Script(p[2])
    /\ w_pc = "idle" /\ w_msg = Typed("S2C", Bell) /\ w_next = <<>>
    /\ w_buf = <<>> /\ w_res = InsufficientBytes

\* mutant: the relay tasks run without waiting for the handshake
SpawnedAnyway(A) == A

\* the relay tasks run once they are spawned
Spawned(A) == hs_pc = "spawned" /\ A

NextHandshake ==
    \/ \E ok \in BOOLEAN : HsConnect(ok)
    \/ SrvSend
    \/ CliSend
    \/ Handshake
    \/ HsEof
    \/ HsSpawn
    \/ Spawned(S2CStart)
    \/ Spawned(C2SReadFail)

SpecHandshake == InitHandshake /\ [][NextHandshake]_vars

\* the messages of type kind the handshake wrote to a peer
HsWrote(to, kind) ==
    {i \in 1..Len(hs_log) : hs_log[i].to = to /\ hs_log[i].kind = kind}

\* neither relay task has started
NoRelay ==
    /\ hs_pc # "spawned"
    /\ c2s_pc = "read" /\ s2c_pc = "start"
    /\ clientIn = <<>> /\ serverRead = 0

HsOver == hs_pc \in {"failed", "panicked", "spawned"}

\* C12 (as claimed): when the upstream server sends an empty SecurityTypes
\* list followed by the reason "bad", the handshake writes the empty
\* SecurityTypes list to the client and ends with Error::Protocol("bad");
\* no ClientInit is forwarded and no relay task starts.
C12_RefusedByServer ==
    (srv_script.chunks = Srv38Fail /\ AllSent(srv_script) /\ HsOver)
      => /\ hs_pc = "failed"
         /\ hs_err = ProtocolError(Bad)
         /\ \E i \in HsWrote("client", "SecurityTypes") : hs_log[i].m = <<>>
         /\ HsWrote("server", "ClientInit") = {}
         /\ NoRelay

(* ------------------------- the accept loop (C13) ---------------------- *)
MaxConns == 2
MaxActions == 2

InitAccept ==
    /\ InitTasks({PF32})
    /\ HsDone
    /\ client_counter = 0 /\ listener = "running" /\ conns = <<>>
    /\ w_pc = "idle" /\ w_msg = Typed("S2C", Bell) /\ w_next = <<>>
    /\ w_buf = <<>> /\ w_res = InsufficientBytes

ConnIdx == 1..MaxConns + 1

NextAccept ==
    \/ \E o \in AcceptOutcomes : Accept(o, MaxConns)
    \/ \E i \in ConnIdx, o \in HandshakeOutcomes : ConnHandshake(i, o)
    \/ \E i \in ConnIdx : ConnAction(i, MaxActions)
    \/ \E i \in ConnIdx, o \in {"err", "panic"} : ConnRelayEnd(i, o)
    \/ \E i \in ConnIdx : ConnDisconnect(i)
    \/ WriterApply

SpecAccept == InitAccept /\ [][NextAccept]_vars

\* connection i fails in this step: its task ends
ConnFails(i) ==
    /\ i \in 1..Len(conns)
    /\ conns[i].st # "panicked"
    /\ conns'[i].st = "panicked"

SomeFailed == \E i \in 1..Len(conns) : conns[i].st = "panicked"

SentBy(i) == {conns[i].sent[k] : k \in 1..Len(conns[i].sent)}

\* C16: the i-th accepted connection has the id i - 1 (accept order, from
\* 0, strictly increasing, hence no id is used twice), the id of a
\* connection never changes, every event a connection produces carries its
\* id, and every event in the channel was produced by the connection whose
\* id it carries.
C16_ClientIds ==
    /\ [](/\ client_counter = Len(conns)
          /\ \A i \in 1..Len(conns) :
                /\ conns[i].id = i - 1
                /\ \A e \in SentBy(i) : e.id = conns[i].id
          /\ \A k \in 1..Len(entered) :
                \E i \in 1..Len(conns) :
                   entered[k] \in SentBy(i) /\ entered[k].id = i - 1)
    /\ [][\A i \in 1..Len(conns) :
             /\ Len(conns') >= Len(conns)
             /\ conns'[i].id = conns[i].id]_vars

\* C16 witness: two connections accepted, the first clicked and the second
\* disconnected; their events are in the channel's history with ids 0 and 1
C16_Witness ==
    /\ Len(conns) = 2
    /\ conns[1].sent = <<Action(0)>>
    /\ conns[2].sent = <<Action(1), Disconnect(1)>>
    /\ Len(entered) = 3
    /\ entered[3] = Disconnect(1)

(* ------------------- the order of the relayed messages ---------------- *)
\* ---- SpecOrder: both relays on messages of several kinds ----
OrderC2S ==
    {SetEncodings(<<Enc("Hextile")>>), KeyEvent(TRUE, 65), C2SCutText(Hi),
     PointerEvent(0, 5, 5), Request}
OrderS2C == {FramebufferUpdate(1), Bell, S2CCutText(Hi)}
OrderRects == {Rectangle(0, 0, 10, 10, Enc("Raw"))}

InitOrder == InitRelay({PF32})

NextOrder ==
    \/ \E m \in OrderC2S : C2SHandle(m)
    \/ C2SLoad
    \/ S2CStep(OrderS2C, OrderRects)
    \/ SendAction(PeerId, MaxPeer)
    \/ WriterApply

SpecOrder == InitOrder /\ [][NextOrder]_vars

\* the messages a peer decodes from the bytes b, up to the first that does
\* not decode
RECURSIVE DecodeAll(_, _)
DecodeAll(kind, b) ==
    IF b = <<>> THEN <<>>
    ELSE LET r == ReadFrom(kind, b)
         IN IF r.st = "ok" THEN <<r.v>> \o DecodeAll(kind, r.rest)
            ELSE <<r>>

\* the bytes the C2S relay has written to the server
ServerStream ==
    Flatten([i \in 1..Len(serverOut) |-> WriteTo("C2S", serverOut[i])])

\* a is b with some elements removed
RECURSIVE IsSubseq(_, _)
IsSubseq(a, b) ==
    IF a = <<>> THEN TRUE
    ELSE IF b = <<>> THEN FALSE
    ELSE IF Head(a) = Head(b) THEN IsSubseq(Tail(a), Tail(b))
    ELSE IsSubseq(a, Tail(b))

\* the client's messages as the relay forwards them
Replaced(seq) ==
    [i \in 1..Len(seq) |->
        IF seq[i].type = "SetEncodings" THEN SetEncodings(FixedEncodings)
        ELSE seq[i]]

\* the messages of seq the relay never swallows
NeverSwallowed(seq) ==
    SelectSeq(seq, LAMBDA m : m.type \notin {"PointerEvent",
                                             "FramebufferUpdateRequest"})

\* an item of the server's stream without the count of a frame header,
\* which the relay may rewrite
Uncounted(item) ==
    IF item.k = "msg" /\ item.m.type = "FramebufferUpdate"
    THEN [k |-> "msg", m |-> [type |-> "FramebufferUpdate"], src |-> item.src]
    ELSE item

\* the relayed items written to the client
Relayed ==
    SelectSeq(clientOut, LAMBDA item : item.src = "server")

IsPrefix(a, b) == Len(a) <= Len(b) /\ a = SubSeq(b, 1, Len(a))

\* C14 (as claimed): what the server receives is the client's messages in
\* the order sent, SetEncodings replaced, swallowed PointerEvents and
\* requests removed and nothing else removed; what the client receives from
\* the server's stream is in the order the relay read it.
C14_OrderPreserved ==
    /\ IsSubseq(DecodeAll("C2S", ServerStream), Replaced(clientIn))
    /\ c2s_pc = "read"
         => NeverSwallowed(DecodeAll("C2S", ServerStream))
              = NeverSwallowed(Replaced(clientIn))
    /\ IsPrefix([i \in 1..Len(Relayed) |-> Uncounted(Relayed[i])],
                [i \in 1..Len(serverIn) |-> Uncounted(serverIn[i])])

(* --------------------------- payload framing -------------------------- *)
\* the size the claim gives the payload of a Raw rectangle at format
RawSize(rect, format) ==
    rect.width * rect.height * (format.bits_per_pixel \div 8)

\* the item at position i of the client stream is the header of a Raw
\* rectangle
RawHeaderAt(out, i) ==
    /\ i \in 1..Len(out)
    /\ out[i].k = "rect"
    /\ out[i].r.encoding = Enc("Raw")

\* C15 (as claimed): every header of a Raw rectangle on the client stream,
\* relayed or injected, is followed by its payload, and the payload written
\* has width * height * (bpp / 8) bytes, bpp being the bits_per_pixel of
\* the client's last SetPixelFormat (the session's format, ServerInit's if
\* the client sent none) at the time the payload is written.
C15_RawPayloadSize ==
    /\ [](\A i \in 1..Len(clientOut) - 1 :
             RawHeaderAt(clientOut, i) => clientOut[i + 1].k = "data")
    /\ [][\A i \in (Len(clientOut) + 1)..Len(clientOut') :
             (clientOut'[i].k = "data" /\ RawHeaderAt(clientOut', i - 1))
               => clientOut'[i].n = RawSize(clientOut'[i - 1].r, fmt)]_vars

(* ----------------------- Rectangle::payload_size ---------------------- *)
\* Rectangle::payload_size on the rectangle w_msg at the format fmt: the
\* size, a panic at unimplemented!() or on an overflow in the debug build,
\* the wrapped size on an overflow in the release build
SizePayload(debug) ==
    /\ w_pc = "size"
    /\ w_res' = IF PayloadUnsupported(w_msg.m) THEN Panic
                ELSE IF PayloadOverflows(w_msg.m, fmt) /\ debug THEN Panic
                ELSE Ok(PayloadLimbs(w_msg.m, fmt), <<>>)
    /\ w_pc' = IF debug THEN "sized_debug" ELSE "sized"
    /\ UNCHANGED <<w_msg, w_next, w_buf>>
    /\ UNCHANGED <<coreVars, c2sVars, sharedVars, s2cVars, h_pc, hsVars,
                   acceptVars>>

\* ---- SpecSize: payload_size over the range of widths and heights ----
SizeDims == {0, 1, 7, 8, 9, 255, 256, 32768, 65535}
SizeEncodings == {"Raw", "Cursor", "CopyRect", "Hextile"}

InitSize ==
    /\ InitConn({PF8, PF16, PF32})
    /\ w_pc = "size"
    /\ \E w \in SizeDims, h \in SizeDims, t \in SizeEncodings :
          w_msg = Typed("Rectangle", Rectangle(0, 0, w, h, Enc(t)))
    /\ w_next = <<>> /\ w_buf = <<>> /\ w_res = InsufficientBytes

NextSize == \E debug \in BOOLEAN : SizePayload(debug)

SpecSize == InitSize /\ [][NextSize]_vars

\* pairwise coprime moduli whose product exceeds every payload size
Moduli == {32768, 32767, 32765}

\* width * height * (bpp / 8), plus ceil(width / 8) * height for Cursor,
\* modulo m
ExpectedMod(rect, format, m) ==
    LET pixels == ((((rect.width % m) * (rect.height % m)) % m)
                     * (format.bits_per_pixel \div 8)) % m
        mask == (((rect.width + 7) \div 8) * rect.height) % m
    IN IF rect.encoding = Enc("Cursor") THEN (pixels + mask) % m ELSE pixels

\* the value of the limbs v modulo m
LimbsMod(v, m) ==
    LET b == U16 % m
    IN ((v.l0 % m) + (((v.l1 % m) * b) % m)
          + (((v.l2 % m) * ((b * b) % m)) % m)) % m

\* C17: for widths and heights over the 16-bit range and bpp 8, 16, 32,
\* payload_size returns (no panic, no wrap-around) w*h*(bpp/8) for Raw,
\* w*h*(bpp/8) + ceil(w/8)*h for Cursor and 4 for CopyRect: its limbs are
\* in range and agree with that number modulo each of the moduli.
C17_PayloadSize ==
    (w_pc \in {"sized", "sized_debug"} /\ ~PayloadUnsupported(w_msg.m))
      => /\ w_res.st = "ok"
         /\ ~PayloadOverflows(w_msg.m, fmt)
         /\ w_res.v.l0 \in 0..(U16 - 1) /\ w_res.v.l1 \in 0..(U16 - 1)
         /\ w_res.v.l2 \in 0..4
         /\ IF w_msg.m.encoding = Enc("CopyRect")
            THEN w_res.v = Limbs(0, 0, 4)
            ELSE \A m \in Moduli :
                    LimbsMod(w_res.v, m) = ExpectedMod(w_msg.m, fmt, m)

\* C17 witness: the largest Cursor rectangle at 32 bpp is sized
\* 65535 * 65535 * 4 + 8192 * 65535 = 17716207620 = 4 * 2^32 + 8183 * 2^16
\* + 57348
C17_Witness ==
    /\ w_pc = "sized_debug"
    /\ w_msg.m = Rectangle(0, 0, 65535, 65535, Enc("Cursor"))
    /\ fmt = PF32
    /\ w_res = Ok(Limbs(4, 8183, 57348), <<>>)

(* ------------------------ request reclamation ------------------------- *)
Occurrences(seq, m) == Cardinality({i \in 1..Len(seq) : seq[i] = m})

\* C18 (as claimed): a request next_request obtained from its blocking
\* recv() is never written to the server by the C2S relay, whatever the
\* interleaving of try_send and load with try_recv, store(false), recv and
\* store(true).  (A request is told from the others by its content: the
\* rule is stated for requests the client sent once.)
C18_ReclaimedNotForwarded ==
    \A k \in 1..Len(reclaimed) :
       Occurrences(clientIn, reclaimed[k]) = 1
         => Occurrences(serverOut, reclaimed[k]) = 0

(* ------------------- requests and forward_request --------------------- *)
IsRequest(m) == m.type = "FramebufferUpdateRequest"

Requests(seq) == Cardinality({i \in 1..Len(seq) : IsRequest(seq[i])})

\* the step of C2SHandler::handle that does the try_send
OffersCopy ==
    /\ c2s_pc = "read" /\ c2s_pc' = "fbreq_load"
    /\ IsRequest(clientIn'[Len(clientIn')])

\* the step that loads forward_request and acts on it
LoadsFlag == c2s_pc = "fbreq_load" /\ c2s_pc' # "fbreq_load"

\* C19: on a client FramebufferUpdateRequest the C2S relay first offers a
\* copy to the one-slot request channel, which takes it when the slot is
\* free (and the receiver is alive) and drops it otherwise, writing nothing
\* to the server in that step; it then writes the request to the server
\* exactly when forward_request is true at the load (the write itself may
\* fail, which ends the relay), and in either case forgets the request, so
\* that a request is only ever written to the server by the load step that
\* found the flag true.
C19_ForwardIffFlag ==
    [][ /\ OffersCopy =>
              /\ serverOut' = serverOut
              /\ forward_request' = forward_request
              /\ c2s_req' = <<clientIn'[Len(clientIn')]>>
              /\ IF Len(fbreq) < FbreqCap /\ ~Ended(s2c_pc)
                 THEN fbreq' = Append(fbreq, c2s_req'[1])
                 ELSE fbreq' = fbreq
        /\ LoadsFlag =>
              /\ c2s_req' = <<>>
              /\ fbreq' = fbreq
              /\ IF forward_request
                 THEN \/ serverOut' = Append(serverOut, c2s_req[1])
                      \/ c2s_pc' = "exited" /\ serverOut' = serverOut
                 ELSE c2s_pc' = "read" /\ serverOut' = serverOut
        /\ Requests(serverOut') > Requests(serverOut) =>
              LoadsFlag /\ forward_request
      ]_vars

\* two requests were swallowed, the second with the slot full: its copy
\* was dropped, and the relay reads on
C19_Witness ==
    /\ c2s_pc = "read"
    /\ ~forward_request
    /\ Requests(clientIn) = 2
    /\ Requests(serverOut) = 0
    /\ Len(fbreq) = FbreqCap

(* --------------------- the pixel format of a frame -------------------- *)
\* the step relays a payload whose size the proxy computes
SizesPayload ==
    /\ s2c_pc = "payload"
    /\ s2c_rect.encoding # Enc("Zrle")
    /\ Len(clientOut') = Len(clientOut) + 1

\* the step ends the relayed rectangles of a frame
EndsRects ==
    /\ s2c_pc \in {"header", "rect", "payload"}
    /\ s2c_pc' \in {"icon", "select"}

\* C20 (as claimed): every payload of a relayed frame whose size the proxy
\* computes is sized with the pixel format read at that frame's header,
\* whatever SetPixelFormat the C2S relay published since, and the icon is
\* appended to the frame exactly when that format has 32 bits per pixel.
C20_FrameFormat ==
    [][ /\ SizesPayload =>
              clientOut'[Len(clientOut')] =
                  DataItem(PayloadSize(s2c_rect, frame_fmt), "server")
        /\ EndsRects => (s2c_pc' = "icon" <=> Injects(frame_fmt'))
      ]_vars

(* ------------------- SetPixelFormat and the channel ------------------- *)
\* the step in which the C2S relay handles a SetPixelFormat
HandlesFormat ==
    /\ Len(clientIn') = Len(clientIn) + 1
    /\ clientIn'[Len(clientIn')].type = "SetPixelFormat"

PlainTypes == {"SetPixelFormat", "KeyEvent", "CutText"}

Plain(seq) == SelectSeq(seq, LAMBDA m : m.type \in PlainTypes)

\* C22 (as claimed): the SetPixelFormat, KeyEvent and CutText messages the
\* relay has written are the ones the client sent, in order, and the server,
\* decoding the bytes written to it, finds each of them as the client sent
\* it, at the position it was written (the framing of the stream is kept).
C22_ForwardedUnchanged ==
    LET decoded == DecodeAll("C2S", ServerStream)
    IN /\ c2s_pc = "read" => Plain(serverOut) = Plain(clientIn)
       /\ Len(decoded) = Len(serverOut)
       /\ \A i \in 1..Len(serverOut) :
             serverOut[i].type \in PlainTypes => decoded[i] = serverOut[i]

(* -------------------- the handshake before the relays ----------------- *)
\* the handshake has written a message of type kind to a peer
HsForwarded(to, kind) == HsWrote(to, kind) # {}

\* a relay task has run
RelayStarted ==
    \/ c2s_pc # "read" \/ s2c_pc # "start"
    \/ clientIn # <<>> \/ serverOut # <<>>
    \/ serverRead # 0 \/ clientOut # <<>>

\* C23: the handshake writes each of its messages at most once; when it
\* reads the client's Version the server's Version has been forwarded to the
\* client, and when it reads ServerInit the ClientInit has been forwarded to
\* the server; a relay task runs only after ServerInit has been forwarded to
\* the client, and the session's pixel format is then the pixel_format of
\* that ServerInit; a handshake that failed stays failed and no relay task
\* ever runs.
C23_HandshakeFirst ==
    /\ [](\A i, j \in 1..Len(hs_log) :
            (hs_log[i].to = hs_log[j].to /\ hs_log[i].kind = hs_log[j].kind)
               => i = j)
    /\ [](hs_pc = "client_version" => HsForwarded("client", "Version"))
    /\ [](hs_pc = "server_init" => HsForwarded("server", "ClientInit"))
    /\ [](RelayStarted =>
            /\ hs_pc = "spawned"
            /\ HsForwarded("client", "ServerInit"))
    /\ [](hs_pc \in {"handshaken", "spawned"} =>
            \E i \in HsWrote("client", "ServerInit") :
               /\ i = Len(hs_log)
               /\ fmt = hs_log[i].m.pixel_format)
    /\ [][(hs_pc \in {"failed", "panicked"}) =>
            (hs_pc' = hs_pc /\ ~(RelayStarted'))]_vars

\* a session whose ServerInit announced 16 bits per pixel: its relays run
C23_Witness ==
    /\ hs_pc = "spawned"
    /\ s2c_pc = "select"
    /\ fmt = PF16
    /\ Len(hs_log) = 5

(* ------------------------- the security type -------------------------- *)
\* the security types the handshake went on with: the security word of a
\* 3.3 server, the SecurityType chosen by a 3.8 client
Negotiated ==
    {hs_log[i].m : i \in HsWrote("client", "SecurityResult")
                          \cup HsWrote("server", "SecurityType")}

\* the handshake went past the security type
PastSecurity ==
    \/ hs_pc \in {"client_init", "server_init", "handshaken", "spawned"}
    \/ HsForwarded("server", "ClientInit")
    \/ HsForwarded("client", "ServerInit")
    \/ RelayStarted

\* C24: the handshake goes past the security type only when that type is 1
\* (None); with a server that asks for VNC authentication (type 2) it ends
\* at the assertion, no ClientInit or ServerInit is forwarded and no relay
\* task runs.
C24_OnlyNone ==
    /\ PastSecurity => Negotiated = {1}
    /\ (srv_script.chunks = Srv33Vnc /\ 2 \in Negotiated) =>
          /\ hs_pc = "panicked"
          /\ ~HsForwarded("server", "ClientInit")
          /\ ~HsForwarded("client", "ServerInit")
          /\ ~RelayStarted

\* the server's security word 2 was read and forwarded to the client, the
\* client's ClientInit has arrived, and the handshake is over
C24_Witness ==
    /\ srv_script.chunks = Srv33Vnc
    /\ Negotiated = {2}
    /\ AllSent(cli_script)
    /\ hs_pc = "panicked"

(* ------------------ the SecurityResult of RFB 3.8 --------------------- *)
\* ---- SpecHandshakeLive: the handshake with peers that keep talking ----
\* The peers send what their script says once they have received what it
\* waits for, and the connection's task runs whenever a message it awaits
\* is complete: weak fairness for the three.
SpecHandshakeLive ==
    /\ InitHandshake
    /\ [][NextHandshake]_vars
    /\ WF_vars(SrvSend)
    /\ WF_vars(CliSend)
    /\ WF_vars(Handshake)

\* both peers announce RFB 003.008
Both38 == srv_script.chunks = Srv38None /\ cli_script.chunks = Cli38

\* the handshake forwarded the client's SecurityType and then the server's
\* SecurityResult, and has not yet read ClientInit or has forwarded it
\* after them
ResultAfterType ==
    \E i \in HsWrote("server", "SecurityType") :
       \E j \in HsWrote("client", "SecurityResult") :
          /\ i < j
          /\ \A k \in HsWrote("server", "ClientInit") : j < k

\* C25 (as claimed): with a server and a client that both announce
\* "RFB 003.008\n", once the proxy is connected the handshake comes to
\* forward the server's SecurityResult to the client, after the security
\* type was chosen and before ClientInit.
C25_SecurityResult38 ==
    (Both38 /\ hs_pc = "server_version") ~> ResultAfterType

(* ---------------------- reads over split streams ---------------------- *)
\* the bytes of the message on the stream, and read_from on all of them
WholeStream == WriteTo(w_msg.kind, w_msg.m)
WholeResult == ReadFrom(w_msg.kind, WholeStream)

\* read_message has returned, or waits for bytes that will not come
ReadOver == w_pc = "done" /\ (w_next = <<>> \/ w_res # InsufficientBytes)

\* C26 (as claimed): however the bytes of a message are split into two
\* socket reads, read_message ends with the result it has when they arrive
\* at once; an attempt that lacks bytes leaves the buffer as it was, so that
\* buffer and bytes to come are the stream; after a successful read the
\* buffer holds exactly the bytes not consumed.
C26_SplitIndependent ==
    /\ ReadOver => w_res = WholeResult
    /\ (w_pc = "done" /\ w_res = InsufficientBytes)
          => w_buf \o w_next = WholeStream
    /\ (w_pc = "done" /\ w_res.st = "ok") => w_buf = w_res.rest

(* ------------------------ the rewritten count ------------------------- *)
\* the step in which handle_message decides on the icon and writes the
\* frame's header
WritesHeader == s2c_pc = "header" /\ s2c_pc' # "header"

\* C27 (as claimed): at 32 bits per pixel the header written to the client
\* has the count c + 1, c being the count the server sent, for every c up
\* to 65535: the count does not wrap and the relay does not abort.
C27_CountPlusOne ==
    [][ (WritesHeader /\ fmt.bits_per_pixel = 32) =>
            /\ s2c_pc' # "panicked"
            /\ clientOut' = Append(clientOut,
                  MsgItem([type |-> "FramebufferUpdate",
                           count |-> s2c_count + 1], "server"))
      ]_vars

(* --------------------- events after the Disconnect -------------------- *)
\* ---- SpecGone: a client that clicks while its connection ends ----
GoneC2S == {PointerEvent(1, 5, 5), PointerEvent(0, 5, 5), Request}

InitGone == InitRelay({PF32})

NextGone ==
    \/ \E m \in GoneC2S : C2SHandle(m)
    \/ C2SLoad
    \/ C2SReadFail
    \/ S2CStep(LifeS2C, LifeRects)
    \/ S2CFail
    \/ SendAction(PeerId, MaxPeer)
    \/ WriterApply
    \/ HandleJoin
    \/ HandleDisconnect

SpecGone == InitGone /\ [][NextGone]_vars

\* C28 (as claimed): in the order in which events entered the event
\* channel, no Action{id} of the connection comes after its Disconnect{id}.
C28_NoActionAfterDisconnect ==
    \A i, j \in 1..Len(entered) :
       (i < j /\ entered[i] = Disconnect(ConnId))
          => entered[j] # Action(ConnId)

(* ------------------------- the request budget ------------------------- *)
\* the S2C relay holds a request it has taken from the channel and has not
\* yet written the header for
RequestInHand ==
    IF s2c_pc \in {"nr_store_true", "header", "st_header"} THEN 1 ELSE 0

\* C29: the FramebufferUpdate headers written to the client, relayed and
\* unsolicited, the request the relay holds for the next header and the
\* request waiting in the channel are together never more than the
\* FramebufferUpdateRequests the client has sent: each header has spent a
\* request of its own.
C29_RequestBudget ==
    Cardinality(UpdateHeaders) + RequestInHand + Len(fbreq)
      <= Requests(clientIn)

\* two requests sent, two headers written: a relayed frame and an
\* unsolicited update
C29_Witness ==
    /\ Requests(clientIn) = 2
    /\ Cardinality(UpdateHeaders) = 2
    /\ \E i, j \in UpdateHeaders :
          clientOut[i].src = "server" /\ clientOut[j].src = "proxy"

(* ------------------------ the fate of a request ----------------------- *)
\* requests the S2C relay has taken from the request channel: one for each
\* header written and the one it holds (no S2C step of SpecFmt fails
\* between taking a request and writing the header)
TakenByS2C == Cardinality(UpdateHeaders) + RequestInHand

\* C30 (as claimed), by count: when the C2S relay is between two messages,
\* the requests the client has sent are no more than those written to the
\* server plus those that entered the request channel (taken by the S2C
\* relay, or still waiting in it); one more would be a request that was
\* neither forwarded nor offered to the S2C relay.
C30_RequestNotLost ==
    c2s_pc = "read"
      => Requests(clientIn)
           <= Requests(serverOut) + TakenByS2C + Len(fbreq)

(* ------------------- a click on a full event channel ------------------ *)
\* ---- SpecBurst: a client clicks while its peer floods the channel ----
\* events the peer connection produces while the writer is not scheduled
MaxBurst == 16

BurstC2S == {PointerEvent(1, 5, 5), PointerEvent(0, 5, 5)}

InitBurst == InitRelay({PF32})

NextBurst ==
    \/ \E m \in BurstC2S : C2SHandle(m)
    \/ SendAction(PeerId, MaxBurst)
    \/ WriterApply

SpecBurst == InitBurst /\ [][NextBurst]_vars

\* button-1 releases the relay has read and those it has written
Releases(seq) ==
    Cardinality({i \in 1..Len(seq) :
        seq[i].type = "PointerEvent" /\ seq[i].button_mask = 0})

\* C31 (as claimed): while the C2S relay runs, the button-1 releases it has
\* swallowed (read and not written to the server) are as many as the
\* Action{id} of its connection that entered the event channel, and, once
\* the writer has emptied the channel, as many as the Action{id} it applied.
C31_ClickApplied ==
    c2s_pc = "read"
      => LET swallowed == Releases(clientIn) - Releases(serverOut)
         IN /\ Occurrences(entered, Action(ConnId)) = swallowed
            /\ events = <<>>
                 => Occurrences(applied, Action(ConnId)) = swallowed


(* --------------------- forward_request and the wait -------------------- *)
\* next_request, lines 344-346: between store(false) and store(true)
InNextRequestWait == s2c_pc \in {"nr_recv", "nr_store_true"}

\* C32 (as claimed): forward_request is false only while the S2C relay is
\* blocked in next_request waiting for a client request; it is true in the
\* initial state and whenever the S2C relay is anywhere else.
C32_FalseOnlyWhileWaiting ==
    ~forward_request => InNextRequestWait


(* ------------------ whole messages on the client stream ---------------- *)
RECURSIVE RectsEnd(_, _, _)
\* the index after n rectangles, each with its payload, that start at item i
\* of seq (DesktopSize has no payload); 0 when seq has not got all of them
RectsEnd(seq, i, n) ==
    IF n = 0 THEN i
    ELSE IF i > Len(seq) \/ seq[i].k # "rect" THEN 0
    ELSE IF seq[i].r.encoding = Enc("DesktopSize")
         THEN RectsEnd(seq, i + 1, n - 1)
    ELSE IF i + 1 > Len(seq) \/ seq[i + 1].k \notin {"data", "zrle"} THEN 0
    ELSE RectsEnd(seq, i + 2, n - 1)

\* the index after the S2C message that starts at item i of seq; 0 when item
\* i is not a message header or the message is not all there
MessageEnd(seq, i) ==
    IF seq[i].k # "msg" THEN 0
    ELSE IF seq[i].m.type = "FramebufferUpdate"
         THEN RectsEnd(seq, i + 1, seq[i].m.count)
    ELSE i + 1

RECURSIVE WholeMessages(_, _)
\* seq from item i on is a concatenation of complete S2C messages
WholeMessages(seq, i) ==
    IF i > Len(seq) THEN TRUE
    ELSE LET e == MessageEnd(seq, i)
         IN e # 0 /\ WholeMessages(seq, e)

\* the headers of unsolicited updates on the client stream
Unsolicited ==
    {i \in 1..Len(clientOut) :
        clientOut[i] = MsgItem(FramebufferUpdate(1), "proxy")}

\* C33: the client stream is a concatenation of complete S2C messages:
\* whatever the relay has written before the header of a message, relayed or
\* unsolicited, is a sequence of whole messages, so no unsolicited update
\* stands inside a relayed frame or another relayed message, and whenever the
\* relay is back at its select! the whole stream is such a sequence.
C33_WholeMessages ==
    /\ \A i \in 1..Len(clientOut) :
          clientOut[i].k = "msg"
            => WholeMessages(SubSeq(clientOut, 1, i - 1), 1)
    /\ s2c_pc = "select" => WholeMessages(clientOut, 1)

\* the state changed before the relayed frame got its icon (the icon is the
\* one of the new state), and the unsolicited update that announces the
\* change stands whole right after that frame
C33_Witness ==
    \E i \in Unsolicited :
        /\ i > 2
        /\ clientOut[1] = MsgItem(FramebufferUpdate(2), "server")
        /\ MessageEnd(clientOut, 1) = i
        /\ clientOut[i - 2] = RectItem(IconRect(<<PeerId>>), "proxy")
        /\ MessageEnd(clientOut, i) # 0

====
